---- MODULE Spec2Model ----
(***************************************************************************)
(* The MCTP server task of task/mctp-server: the Server dispatch layer     *)
(* (server.rs), its serial transport sender (serial.rs) and the IPC        *)
(* dispatch of main.rs, driven by client tasks, the kernel clock and the   *)
(* peer on the serial line.  The Router, the fragmenter and the kernel     *)
(* live in other crates; they are modelled at their interface.             *)
(***************************************************************************)
EXTENDS Integers, Sequences, FiniteSets, TLC

VARIABLES
    now,          \* kernel time in ms (sys_get_timer().now)
    timer,        \* the task's kernel timer deadline: <<>> or <<deadline>>
    outstanding,  \* Server.outstanding: LinearMap as a sequence of entries
    calls,        \* per client task: its recv call and the replies sent to it
    eid,          \* the Router's local EID
    reqs,         \* the Router's request-channel table, indexed by handle
    nextTag,      \* the Router's tag allocation counter
    inbox,        \* the Router's reassembled messages, per handle (cookie)
    tx,           \* the last Server.send: client buffer, Router.send argument,
                  \* UART writes, replies sent to the caller
    crashed,      \* the server task has panicked
    listeners,    \* the Router's listener table, indexed by slot
    ctl,          \* the last req, listener, get_eid or set_eid call and its replies
    api,          \* per client task: the mctp-api objects it holds
    irq,          \* notifications of the MCTP server task: the bits posted and
                  \* not yet received, and the packet waiting in the UART
    i2c,          \* the I2C hardware under test: the MockI2cHardware, the
                  \* OpenProtI2cAdapter and the outcome of the last call
    dg            \* the digest server (drv/digest-server): its backend, its
                  \* ServerImpl fields, its last reply and hardware calls

vars == <<now, timer, outstanding, calls, eid, reqs, nextTag, inbox, tx, crashed,
          listeners, ctl, api, irq, dg, i2c>>

\* the state of the MCTP server and its clients
mctpVars ==
    <<now, timer, outstanding, calls, eid, reqs, nextTag, inbox, tx, crashed,
      listeners, ctl, api, irq>>

----------------------------------------------------------------------------
(* Program constants *)

MAX_PAYLOAD == 1023
MAX_REQUESTS == 8
MAX_LISTENERS == 8
MAX_OUTSTANDING == 16
OWN_EID == 42

\* ipc::ServerError
ServerRestarted == 1
InternalError == 2
NoSpace == 3
AddrInUse == 4
TimedOut == 5
BadArgument == 6

\* mctp_stack: serial MTU, tag space
MTU_MAX == 255
LEN_LIMIT == 1024
TAG_SPACE == 8

----------------------------------------------------------------------------
(* Bounds of the model *)

MaxReqs == 1           \* request channels the clients open
MaxTime == 199         \* the clock stops advancing here
MaxInbox == 1          \* requests of the peer queued for a listener
MaxSessions == 2       \* digest sessions created
MaxChunks == 2         \* update calls fed to one digest session

\* the image's two MCTP clients (task/mctp-echo, task/spdm-resp)
Tasks == {"mctp_echo", "spdm_resp"}
\* handle values clients pass: one the Router may issue, one it never does
Handles == {0, 1}
TickSteps == {99, 100}
Timeouts == {0, 100}
StackTimeouts == {100}
RemoteEids == {8}
MsgTypes == {1}
\* tags the peer answers with: the first one allocated and another
InTags == {0, 1}
\* further client tasks of the image, in the order they call, and a handle
\* no req or listener call ever issued
Callers == <<"mctp_echo", "spdm_resp", "client03", "client04", "client05",
             "client06", "client07", "client08", "client09", "client10",
             "client11", "client12", "client13", "client14", "client15",
             "client16", "client17">>
AllTasks == {Callers[i] : i \in 1..Len(Callers)}
StrayHandles == {16}
\* EIDs passed to set_eid: the null EID, the broadcast EID, the EID mctp-echo
\* sets and the initial one
EidInputs == {0, 255, 8, 42}
\* session ids passed to update and finalize: 0 is never issued
SessionIds == 0..(MaxSessions + 1)
\* causes the UART reports for an interrupt
InterruptDecoding == {"RxDataAvailable", "CharacterTimeout", "TxEmpty",
                      "LineStatusChange"}
\* the task that opens request channels and the task that listens
Requesters == {"spdm_resp"}
Responders == {"mctp_echo"}

None == <<>>
Some(x) == <<x>>

\* A byte buffer of len bytes: data, followed by zero bytes up to len
Bytes(len, data) == [len |-> len, data |-> data]

Ping == Bytes(4, <<112, 105, 110, 103>>)
Pong == Bytes(4, <<112, 111, 110, 103>>)
Hello == Bytes(5, <<104, 101, 108, 108, 111>>)
Oversize == Bytes(MAX_PAYLOAD + 1, <<1>>)
\* leases and declared lengths passed to the digest server
Abc == Bytes(3, <<97, 98, 99>>)
Kilo == Bytes(LEN_LIMIT, <<1>>)
UpdateLeases == {[len |-> 3, data |-> Abc], [len |-> 4, data |-> Abc]}
OneshotLeases ==
    {[len |-> 3, data |-> Abc], [len |-> 4, data |-> Abc],
     [len |-> LEN_LIMIT, data |-> Kilo], [len |-> LEN_LIMIT + 1, data |-> Kilo]}
SendBufs == {Ping, Oversize}
RecvCaps == {4, 2}
InPayloads == {Pong, Hello}

Range(s) == {s[i] : i \in 1..Len(s)}

Min(a, b) == IF a < b THEN a ELSE b

----------------------------------------------------------------------------
(* heapless::LinearMap<GenericHandle, (RecvMessage, u64), OUTSTANDING>:    *)
(* a vector of (key, value) pairs searched linearly.                       *)

Entry(handle, sender, deadline) ==
    [handle |-> handle, sender |-> sender, deadline |-> deadline]

IndexOf(m, k) ==
    IF \E i \in 1..Len(m) : m[i].handle = k
    THEN CHOOSE i \in 1..Len(m) : m[i].handle = k
    ELSE 0

contains_key(m, k) == IndexOf(m, k) # 0

\* insert: replaces the value of an existing key, else pushes; Err when full
insert(m, e) ==
    IF contains_key(m, e.handle)
    THEN [ok |-> TRUE, map |-> [m EXCEPT ![IndexOf(m, e.handle)] = e]]
    ELSE IF Len(m) < MAX_OUTSTANDING
         THEN [ok |-> TRUE, map |-> Append(m, e)]
         ELSE [ok |-> FALSE, map |-> m]

\* remove: swap_remove of the key's slot, a no-op when the key is absent
remove(m, k) ==
    LET i == IndexOf(m, k) IN
    IF i = 0 THEN m
    ELSE IF i = Len(m) THEN SubSeq(m, 1, Len(m) - 1)
         ELSE SubSeq([m EXCEPT ![i] = m[Len(m)]], 1, Len(m) - 1)

\* heapless::Vec<_, OUTSTANDING>::push whose result is dropped
push(v, x) == IF Len(v) < MAX_OUTSTANDING THEN Append(v, x) ELSE v

RECURSIVE remove_all(_, _)
remove_all(m, keys) ==
    IF keys = <<>> THEN m ELSE remove_all(remove(m, Head(keys)), Tail(keys))

----------------------------------------------------------------------------
(* Kernel: synchronous IPC and the task timer *)

IdleCall ==
    [st |-> "idle", op |-> "none", handle |-> 0, timeout |-> 0, cap |-> 0,
     reps |-> <<>>, buf |-> Bytes(0, <<>>)]

\* a task blocked in its recv call: the handle, timeout and lease length
\* (cap) it passed, the replies sent to it, the lease's contents (buf)
NewCall(op, handle, timeout, cap) ==
    [st |-> "blocked", op |-> op, handle |-> handle, timeout |-> timeout,
     cap |-> cap, reps |-> <<>>, buf |-> Bytes(0, <<>>)]

Reply(code, data) == [code |-> code, data |-> data]

\* an error conversion whose catch-all arm takes every error
ServerErrorFromCatchAll(e) == InternalError

\* impl From<mctp::Error> for ServerError
ServerErrorFrom(e) ==
    CASE e = "InternalError" -> InternalError
      [] e = "NoSpace" -> NoSpace
      [] e = "AddrInUse" -> AddrInUse
      [] e = "TimedOut" -> TimedOut
      [] e = "BadArgument" -> BadArgument
      [] OTHER -> InternalError

\* a client task that holds no channel and no listener
NoObjects ==
    [chan |-> None, lis |-> None, resp |-> None, pend |-> "none",
     ret |-> [fn |-> "none", val |-> 0, ipc |-> FALSE]]

\* sys_reply: the reply is recorded against the task's call; the first one
\* unblocks the caller
sys_reply(c, t, code, data) ==
    [c EXCEPT ![t].reps = Append(@, Reply(code, data)), ![t].st = "idle"]

\* Server::set_timer: keeps a sooner kernel deadline, else arms the timer
\* (set_timer_relative); returns the deadline of the requested timeout
set_timer(tm, n, timeout_millis) ==
    IF tm # None /\ (tm[1] - n) < timeout_millis
    THEN [timer |-> tm, deadline |-> n + timeout_millis]
    ELSE [timer |-> Some(n + timeout_millis), deadline |-> n + timeout_millis]

----------------------------------------------------------------------------
(* Router (mctp_stack), at its interface *)

FreeReq == [used |-> FALSE, eid |-> 0, tag |-> None]

ListenerSlots == 0..(MAX_LISTENERS - 1)
FreeListener == [used |-> FALSE, typ |-> 0]

Message(typ, ic, tag, source, payload) ==
    [typ |-> typ, ic |-> ic, tag |-> tag, source |-> source, payload |-> payload]

ReqSlots == 0..(MAX_REQUESTS - 1)

\* handles are distinct per object category: listeners follow the request slots
ListenerHandle(k) == MAX_REQUESTS + k
ListenerHandles == {ListenerHandle(k) : k \in ListenerSlots}

Cookies == Handles \cup ReqSlots \cup ListenerHandles \cup StrayHandles

\* Router::listener(typ): AddrInUse when the type has a listener, else the
\* first free slot, NoSpace when the table is full
RouterListener(ls, typ) ==
    IF \E k \in ListenerSlots : ls[k].used /\ ls[k].typ = typ
    THEN [ok |-> FALSE, err |-> "AddrInUse", slot |-> 0]
    ELSE IF \A k \in ListenerSlots : ls[k].used
         THEN [ok |-> FALSE, err |-> "NoSpace", slot |-> 0]
         ELSE [ok |-> TRUE, err |-> "",
               slot |-> CHOOSE k \in ListenerSlots :
                            ~ls[k].used /\ \A j \in 0..(k - 1) : ls[j].used]

\* Router::set_eid(eid): the null and the broadcast EID are refused
ReservedEid(e) == e = 0 \/ e = 255

IsReq(rq, h) == h \in ReqSlots /\ rq[h].used

\* Router::recv(cookie): pops the next message of the handle, if any
RouterRecv(ib, h) ==
    IF ib[h] = <<>>
    THEN [msg |-> None, inbox |-> ib]
    ELSE [msg |-> Some(Head(ib[h])), inbox |-> [ib EXCEPT ![h] = Tail(@)]]

----------------------------------------------------------------------------
(* Server (server.rs) *)

\* a serialisation with the tag and the source EID in each other's place
RecvMetadataSwapped(m) ==
    <<m.typ, IF m.ic THEN 1 ELSE 0, m.source, m.tag, m.payload.len>>

\* hubpack serialisation of ipc::RecvMetadata, field by field
RecvMetadata(m) ==
    <<m.typ, IF m.ic THEN 1 ELSE 0, m.tag, m.source, m.payload.len>>

\* send_reply: NoSpace when the lease is too short; else the payload is
\* written through the lease (a panic when the caller is gone) and the
\* metadata is the reply
send_reply(c, t, m, cap) ==
    IF m.payload.len > cap
    THEN [calls |-> sys_reply(c, t, NoSpace, <<>>), crashed |-> FALSE]
    ELSE IF c[t].st # "blocked"
         THEN [calls |-> c, crashed |-> TRUE]
         ELSE [calls |-> sys_reply([c EXCEPT ![t].buf = m.payload],
                                   t, 0, RecvMetadata(m)),
               crashed |-> FALSE]

\* a deadline counted from time 0 instead of the time of the call
RecvDeadlineFromBoot(tm, n, timeout_millis) ==
    IF timeout_millis # 0
    THEN set_timer(tm, 0, timeout_millis)
    ELSE [timer |-> tm, deadline |-> 0]

\* Server::recv, deadline of a postponed call
RecvDeadline(tm, n, timeout_millis) ==
    IF timeout_millis # 0
    THEN set_timer(tm, n, timeout_millis)
    ELSE [timer |-> tm, deadline |-> 0]

\* a recv that stores its entry whether or not the handle has one
InsertAlways(m, handle) == TRUE

\* Server::recv, "We don't want to update any existing entries"
ShouldInsert(m, handle) == ~contains_key(m, handle)

\* a deadline test that fires one millisecond late
ExpiredLate(now_millis, deadline) == now_millis > deadline

\* Server::update, the deadline test of the sweep
Expired(now_millis, deadline) == now_millis >= deadline

\* Server::update, one entry of the sweep over outstanding
SweepEntry(s, e, now_millis) ==
    LET got == RouterRecv(s.inbox, e.handle)
        s1 == IF got.msg # None
              THEN IF s.calls[e.sender].st # "blocked"
                   THEN [s EXCEPT !.crashed = TRUE]
                   ELSE LET r == send_reply(s.calls, e.sender, got.msg[1],
                                            s.calls[e.sender].cap)
                        IN  [inbox |-> got.inbox, calls |-> r.calls,
                             marked |-> push(s.marked, e.handle),
                             crashed |-> r.crashed]
              ELSE s
    IN  IF s1.crashed THEN s1
        ELSE IF Expired(now_millis, e.deadline)
             THEN [s1 EXCEPT !.calls = sys_reply(@, e.sender, TimedOut, <<>>),
                             !.marked = push(@, e.handle)]
             ELSE s1

RECURSIVE Sweep(_, _, _, _)
Sweep(m, i, s, now_millis) ==
    IF i > Len(m) \/ s.crashed THEN s
    ELSE Sweep(m, i + 1, SweepEntry(s, m[i], now_millis), now_millis)

----------------------------------------------------------------------------
(* The digest server: drv/digest-server/src/main.rs *)

\* the build's backend: feature aspeed-hace, or the mock controller
Backends == {"aspeed-hace", "mock"}

\* DigestHardwareCapabilities::MAX_CONCURRENT_SESSIONS of the backend
MAX_SESSIONS(backend) == IF backend = "aspeed-hace" THEN 1 ELSE 8

Algorithms == {"Sha256", "Sha384", "Sha512"}

\* words of the digest written to the caller's lease
DigestWords(alg) ==
    CASE alg = "Sha256" -> 8
      [] alg = "Sha384" -> 12
      [] alg = "Sha512" -> 16

\* the hash primitive, opaque: the digest of the chunks fed to a context
DigestOf(alg, chunks) == [alg |-> alg, words |-> DigestWords(alg), input |-> chunks]

DigestOk(val, hw) == [ok |-> TRUE, val |-> val, hw |-> hw]
DigestErr(e, hw) == [ok |-> FALSE, val |-> e, hw |-> hw]

\* ServerImpl::new(hardware), in a build for the backend
ServerImplNew(backend) ==
    [backend |-> backend,
     hardware |-> TRUE,            \* controllers.hardware is Some
     current_session |-> None,
     next_session_id |-> 1,
     rep |-> [op |-> "none", ok |-> TRUE, val |-> 0, hw |-> <<>>]]

\* an init that takes the next session id before the hardware call, so that
\* a failing controller.init uses the id up
init_sha_consuming(s, alg, hwOk) ==
    IF s.current_session # None
    THEN [s |-> s, res |-> DigestErr("TooManySessions", <<>>)]
    ELSE IF ~s.hardware
    THEN [s |-> s, res |-> DigestErr("TooManySessions", <<>>)]
    ELSE IF ~hwOk
    THEN [s |-> [s EXCEPT !.hardware = FALSE,
                          !.next_session_id = s.next_session_id + 1],
          res |-> DigestErr("HardwareFailure", <<"init">>)]
    ELSE [s |-> [s EXCEPT !.hardware = FALSE,
                          !.current_session =
                              Some([session_id |-> s.next_session_id,
                                    algorithm |-> alg,
                                    context |-> Some(<<>>)]),
                          !.next_session_id = s.next_session_id + 1],
          res |-> DigestOk(s.next_session_id, <<"init">>)]

\* ServerImpl::init_sha256 / init_sha384 / init_sha512 (alike but for the
\* algorithm); hwOk: controller.init succeeds.  The result and the server
\* fields after the call.
init_sha(s, alg, hwOk) ==
    IF s.current_session # None
    THEN [s |-> s, res |-> DigestErr("TooManySessions", <<>>)]
    ELSE IF ~s.hardware
    THEN [s |-> s, res |-> DigestErr("TooManySessions", <<>>)]
    ELSE IF ~hwOk
    THEN [s |-> [s EXCEPT !.hardware = FALSE],
          res |-> DigestErr("HardwareFailure", <<"init">>)]
    ELSE [s |-> [s EXCEPT !.hardware = FALSE,
                          !.current_session =
                              Some([session_id |-> s.next_session_id,
                                    algorithm |-> alg,
                                    context |-> Some(<<>>)]),
                          \* wrapping_add(1): ids stay far below 2^32 here
                          !.next_session_id = s.next_session_id + 1],
          res |-> DigestOk(s.next_session_id, <<"init">>)]

\* an update that validates the session and leaves the context as it was
update_discarding(s, session_id, data, hwOk) ==
    IF s.current_session = None \/ s.current_session[1].session_id # session_id
    THEN [s |-> s, res |-> DigestErr("InvalidSession", <<>>)]
    ELSE [s |-> s, res |-> DigestOk(0, <<"update">>)]

\* an update that feeds the current session whatever id is passed
update_unchecked(s, session_id, data, hwOk) ==
    IF s.current_session = None \/ ~hwOk
    THEN [s |-> s, res |-> DigestErr("InvalidSession", <<>>)]
    ELSE IF s.current_session[1].context = None
    THEN [s |-> s, res |-> DigestErr("InvalidSession", <<>>)]
    ELSE [s |-> [s EXCEPT !.current_session =
                              Some([s.current_session[1] EXCEPT !.context =
                                        Some(Append(@[1], data))])],
          res |-> DigestOk(0, <<"update">>)]

\* ServerImpl::update; hwOk: old_ctx.update(data) succeeds
update(s, session_id, data, hwOk) ==
    IF s.current_session = None
    THEN [s |-> s, res |-> DigestErr("InvalidSession", <<>>)]
    ELSE LET session == s.current_session[1] IN
         IF session.session_id # session_id
         THEN [s |-> s, res |-> DigestErr("InvalidSession", <<>>)]
         ELSE IF session.context = None
         THEN [s |-> s, res |-> DigestErr("InvalidSession", <<>>)]
         ELSE IF ~hwOk
         THEN [s |-> [s EXCEPT !.current_session =
                                   Some([session EXCEPT !.context = None])],
               res |-> DigestErr("HardwareFailure", <<"update">>)]
         ELSE [s |-> [s EXCEPT !.current_session =
                                   Some([session EXCEPT !.context =
                                             Some(Append(session.context[1], data))])],
               res |-> DigestOk(0, <<"update">>)]

\* a finalize that takes the session and does not put it back when the id
\* does not match
finalize_taking(s, alg, session_id, hwOk) ==
    IF s.current_session = None
    THEN [s |-> s, res |-> DigestErr("InvalidSession", <<>>)]
    ELSE LET session == s.current_session[1]
             taken == [s EXCEPT !.current_session = None]
         IN
         IF session.session_id # session_id
         THEN [s |-> taken, res |-> DigestErr("InvalidSession", <<>>)]
         ELSE IF session.algorithm # alg
         THEN [s |-> taken, res |-> DigestErr("UnsupportedAlgorithm", <<>>)]
         ELSE IF session.context = None
         THEN [s |-> taken, res |-> DigestErr("InvalidSession", <<>>)]
         ELSE IF ~hwOk
         THEN [s |-> taken, res |-> DigestErr("HardwareFailure", <<"finalize">>)]
         ELSE [s |-> [taken EXCEPT !.hardware = TRUE],
               res |-> DigestOk(DigestOf(alg, session.context[1]), <<"finalize">>)]

\* ServerImpl::finalize_sha256_internal / _sha384_ / _sha512_ (alike but
\* for the algorithm); hwOk: ctx.finalize() succeeds
finalize_internal(s, alg, session_id, hwOk) ==
    IF s.current_session = None
    THEN [s |-> s, res |-> DigestErr("InvalidSession", <<>>)]
    ELSE LET session == s.current_session[1]
             taken == [s EXCEPT !.current_session = None]
         IN
         IF session.session_id # session_id
         THEN [s |-> s, res |-> DigestErr("InvalidSession", <<>>)]
         ELSE IF session.algorithm # alg
         THEN [s |-> taken, res |-> DigestErr("UnsupportedAlgorithm", <<>>)]
         ELSE IF session.context = None
         THEN [s |-> taken, res |-> DigestErr("InvalidSession", <<>>)]
         ELSE IF ~hwOk
         THEN [s |-> taken, res |-> DigestErr("HardwareFailure", <<"finalize">>)]
         ELSE [s |-> [taken EXCEPT !.hardware = TRUE],
               res |-> DigestOk(DigestOf(alg, session.context[1]), <<"finalize">>)]

\* ServerImpl::compute_sha256_oneshot / _sha384_ / _sha512_; failAt: which
\* of the three hardware calls fails (0: none)
compute_oneshot(s, alg, data, failAt) ==
    IF ~s.hardware
    THEN [s |-> s, res |-> DigestErr("HardwareFailure", <<>>)]
    ELSE IF failAt = 0
    THEN [s |-> s, res |-> DigestOk(DigestOf(alg, <<data>>), <<"init", "update", "finalize">>)]
    ELSE [s |-> [s EXCEPT !.hardware = FALSE],
          res |-> DigestErr("HardwareFailure",
                            SubSeq(<<"init", "update", "finalize">>, 1, failAt))]

----------------------------------------------------------------------------
(* I2C: MockI2cHardware (drv/i2c-types/src/mock.rs) *)

\* enum Controller, by its number
I2C0 == 0
I2C7 == 7
ControllerMock == 255

\* enum ReservedAddress
ReservedAddresses == (0..7) \cup (124..127)

\* Result<usize, ResponseCode>: the count of an Ok, the code of an Err
I2cOk(n) == [ok |-> TRUE, val |-> n, code |-> ""]
I2cErr(code) == [ok |-> FALSE, val |-> 0, code |-> code]

\* MockI2cHardware::new
MockI2cHardwareNew ==
    [responding_devices |-> <<>>,   \* responding_devices[..device_count]
     enabled_controllers |-> {},    \* the bits set in the bitfield
     force_error |-> None]

\* MockI2cHardware::add_device
add_device(m, controller, addr) ==
    IF Len(m.responding_devices) < 8
    THEN [m EXCEPT !.responding_devices = Append(@, <<controller, addr>>)]
    ELSE m

\* MockI2cHardware::inject_error
inject_error(m, error) == [m EXCEPT !.force_error = Some(error)]

\* MockI2cHardware::device_responds
device_responds(m, controller, addr) ==
    \E i \in 1..Len(m.responding_devices) :
        m.responding_devices[i] = <<controller, addr>>

\* MockI2cHardware::controller_enabled
controller_enabled(m, controller) ==
    IF controller < 8 THEN controller \in m.enabled_controllers ELSE FALSE

\* the byte the mock puts at index i of the read buffer:
\* (addr.wrapping_add(i as u8)).wrapping_add(0x10)
MockByte(addr, i) == (((addr + (i % 256)) % 256) + 16) % 256

\* a write_read that looks at the device before it looks at the controller
write_read_device_first(m, controller, addr, write_data, read_buffer) ==
    IF m.force_error # None
    THEN [m |-> [m EXCEPT !.force_error = None], res |-> I2cErr(m.force_error[1]),
          buf |-> read_buffer]
    ELSE IF ~device_responds(m, controller, addr)
    THEN [m |-> m, res |-> I2cErr("NoDevice"), buf |-> read_buffer]
    ELSE IF addr \in ReservedAddresses
    THEN [m |-> m, res |-> I2cErr("ReservedAddress"), buf |-> read_buffer]
    ELSE IF ~controller_enabled(m, controller)
    THEN [m |-> m, res |-> I2cErr("BadController"), buf |-> read_buffer]
    ELSE [m |-> m, res |-> I2cOk(Len(read_buffer)),
          buf |-> [i \in 1..Len(read_buffer) |-> MockByte(addr, i - 1)]]

\* a write_read that reports the injected error and keeps it
write_read_sticky(m, controller, addr, write_data, read_buffer) ==
    IF m.force_error # None
    THEN [m |-> m, res |-> I2cErr(m.force_error[1]), buf |-> read_buffer]
    ELSE IF ~controller_enabled(m, controller)
    THEN [m |-> m, res |-> I2cErr("BadController"), buf |-> read_buffer]
    ELSE IF addr \in ReservedAddresses
    THEN [m |-> m, res |-> I2cErr("ReservedAddress"), buf |-> read_buffer]
    ELSE IF ~device_responds(m, controller, addr)
    THEN [m |-> m, res |-> I2cErr("NoDevice"), buf |-> read_buffer]
    ELSE [m |-> m, res |-> I2cOk(Len(read_buffer)),
          buf |-> [i \in 1..Len(read_buffer) |-> MockByte(addr, i - 1)]]

\* MockI2cHardware::write_read: the mock after the call, the result and the
\* read buffer after the call
write_read(m, controller, addr, write_data, read_buffer) ==
    IF m.force_error # None
    THEN [m |-> [m EXCEPT !.force_error = None], res |-> I2cErr(m.force_error[1]),
          buf |-> read_buffer]
    ELSE IF ~controller_enabled(m, controller)
    THEN [m |-> m, res |-> I2cErr("BadController"), buf |-> read_buffer]
    ELSE IF addr \in ReservedAddresses
    THEN [m |-> m, res |-> I2cErr("ReservedAddress"), buf |-> read_buffer]
    ELSE IF ~device_responds(m, controller, addr)
    THEN [m |-> m, res |-> I2cErr("NoDevice"), buf |-> read_buffer]
    ELSE [m |-> m, res |-> I2cOk(Len(read_buffer)),
          buf |-> [i \in 1..Len(read_buffer) |-> MockByte(addr, i - 1)]]

\* MockI2cHardware::write_read_block: "for mock, block read is same as
\* regular read"
write_read_block(m, controller, addr, write_data, read_buffer) ==
    write_read(m, controller, addr, write_data, read_buffer)

\* MockI2cHardware::reset_bus
reset_bus(m, controller) == [m EXCEPT !.force_error = None]

\* MockI2cHardware::enable_controller
enable_controller(m, controller) ==
    IF controller < 8
    THEN [m |-> [m EXCEPT !.enabled_controllers = @ \cup {controller}],
          res |-> I2cOk(0)]
    ELSE [m |-> m, res |-> I2cErr("BadController")]

\* MockI2cHardware::disable_controller
disable_controller(m, controller) ==
    IF controller < 8
    THEN [m |-> [m EXCEPT !.enabled_controllers = @ \ {controller}],
          res |-> I2cOk(0)]
    ELSE [m |-> m, res |-> I2cErr("BadController")]

\* the outcome of a call: the operation, its arguments, its result and the
\* caller's read buffer after it
I2cRep(op, controller, addr, res, buf) ==
    [op |-> op, controller |-> controller, addr |-> addr, ok |-> res.ok,
     val |-> res.val, code |-> res.code, buf |-> buf]

\* Calls of the mock made by a test, each leaving its outcome in rep
MockAddDevice(controller, addr) ==
    /\ i2c' = [i2c EXCEPT !.hw = add_device(@, controller, addr),
                          !.rep = I2cRep("add_device", controller, addr, I2cOk(0), <<>>)]
    /\ UNCHANGED <<mctpVars, dg>>

MockInjectError(error) ==
    /\ i2c' = [i2c EXCEPT !.hw = inject_error(@, error),
                          !.rep = I2cRep("inject_error", 0, 0, I2cOk(0), <<>>)]
    /\ UNCHANGED <<mctpVars, dg>>

MockEnableController(controller) ==
    LET r == enable_controller(i2c.hw, controller) IN
    /\ i2c' = [i2c EXCEPT !.hw = r.m,
                          !.rep = I2cRep("enable_controller", controller, 0, r.res, <<>>)]
    /\ UNCHANGED <<mctpVars, dg>>

MockDisableController(controller) ==
    LET r == disable_controller(i2c.hw, controller) IN
    /\ i2c' = [i2c EXCEPT !.hw = r.m,
                          !.rep = I2cRep("disable_controller", controller, 0, r.res, <<>>)]
    /\ UNCHANGED <<mctpVars, dg>>

MockResetBus(controller) ==
    /\ i2c' = [i2c EXCEPT !.hw = reset_bus(@, controller),
                          !.rep = I2cRep("reset_bus", controller, 0, I2cOk(0), <<>>)]
    /\ UNCHANGED <<mctpVars, dg>>

MockWriteRead(controller, addr, write_data, read_buffer) ==
    LET r == write_read(i2c.hw, controller, addr, write_data, read_buffer) IN
    /\ i2c' = [i2c EXCEPT !.hw = r.m,
                          !.rep = I2cRep("write_read", controller, addr, r.res, r.buf)]
    /\ UNCHANGED <<mctpVars, dg>>

MockWriteReadBlock(controller, addr, write_data, read_buffer) ==
    LET r == write_read_block(i2c.hw, controller, addr, write_data, read_buffer) IN
    /\ i2c' = [i2c EXCEPT !.hw = r.m,
                          !.rep = I2cRep("write_read_block", controller, addr, r.res, r.buf)]
    /\ UNCHANGED <<mctpVars, dg>>

----------------------------------------------------------------------------
(* I2C: OpenProtI2cAdapter (drv/openprot-i2c-server/src/openprot_adapter.rs)
   and the AST1060 path of the server (drv/openprot-i2c-server/src/main.rs).
   The hardware below them is not part of this program: what its write_read
   does is an input of each call, either the bytes the device sends or the
   kind of its error. *)

SMBUS_BLOCK_MAX == 32

HwOk(bytes) == [ok |-> TRUE, bytes |-> bytes]
HwErr(kind) == [ok |-> FALSE, kind |-> kind]

\* the hardware's write_read fills the whole buffer it is given: the
\* device's bytes, then zeros
Fill(bytes, n) == [i \in 1..n |-> IF i <= Len(bytes) THEN bytes[i] ELSE 0]

\* OpenProtI2cAdapter::convert_error
convert_error(kind) ==
    CASE kind = "Bus" -> "BusError"
      [] kind = "ArbitrationLoss" -> "BusLocked"
      [] kind = "NoAcknowledge" -> "NoDevice"
      [] OTHER -> "BadDeviceState"

\* OpenProtI2cAdapter::write_read, after transaction_count += 1
openprot_write_read(addr, write_data, read_buffer, inner) ==
    IF inner.ok
    THEN [res |-> I2cOk(Len(read_buffer)), buf |-> Fill(inner.bytes, Len(read_buffer))]
    ELSE [res |-> I2cErr("BadDeviceState"), buf |-> read_buffer]

\* OpenProtI2cAdapter::write_read_block, after transaction_count += 1
openprot_write_read_block(addr, write_data, read_buffer, inner) ==
    IF write_data = <<>>
    THEN [res |-> I2cErr("BadArg"), buf |-> read_buffer]
    ELSE IF ~inner.ok
    THEN [res |-> I2cErr("BadDeviceState"), buf |-> read_buffer]
    ELSE LET temp_buffer == Fill(inner.bytes, SMBUS_BLOCK_MAX + 1)
             byte_count == temp_buffer[1]
         IN  IF byte_count = 0
             THEN [res |-> I2cOk(0), buf |-> read_buffer]
             ELSE IF byte_count > SMBUS_BLOCK_MAX
             THEN [res |-> I2cErr("TooMuchData"), buf |-> read_buffer]
             ELSE IF byte_count > Len(read_buffer)
             THEN [res |-> I2cErr("TooMuchData"), buf |-> read_buffer]
             ELSE [res |-> I2cOk(byte_count),
                   buf |-> [i \in 1..Len(read_buffer) |->
                               IF i <= byte_count THEN temp_buffer[i + 1]
                               ELSE read_buffer[i]]]

\* map_i2c_error
map_i2c_error(kind) == "BusError"

\* Op::WriteReadBlock of the server built for the AST1060, for one pair of
\* leases: the reply and the bytes written to the read lease
ast1060_write_read_block(addr, write_data, read_lease, inner) ==
    IF Len(write_data) = 0 /\ Len(read_lease) = 0
    THEN [res |-> I2cErr("BadArg"), buf |-> read_lease]
    ELSE IF ~inner.ok
    THEN [res |-> I2cErr(map_i2c_error(inner.kind)), buf |-> read_lease]
    ELSE LET read_slice == Fill(inner.bytes, Len(read_lease))
             bytes_read ==
                 IF read_slice # <<>> /\ Len(write_data) > 0
                 THEN Min(read_slice[1], Len(read_slice) - 1)
                 ELSE Len(read_lease)
         IN  [res |-> I2cOk(bytes_read),
              buf |-> [i \in 1..Len(read_lease) |->
                          IF i <= Min(bytes_read, Len(read_lease)) THEN read_slice[i]
                          ELSE read_lease[i]]]

\* OpenProtI2cAdapter<MockI2cHardware>::inject_error: a placeholder that
\* returns Ok(()) and keeps nothing; the kind asked for is noted in rep.code
AdapterInjectError(addr, kind) ==
    /\ i2c' = [i2c EXCEPT !.rep = I2cRep("adapter.inject_error", I2C0, addr,
                                         [ok |-> TRUE, val |-> 0, code |-> kind], <<>>)]
    /\ UNCHANGED <<mctpVars, dg>>

AdapterWriteRead(addr, write_data, read_buffer, inner) ==
    LET r == openprot_write_read(addr, write_data, read_buffer, inner) IN
    /\ i2c' = [i2c EXCEPT !.transaction_count = @ + 1,
                          !.rep = I2cRep("adapter.write_read", I2C0, addr, r.res, r.buf)]
    /\ UNCHANGED <<mctpVars, dg>>

AdapterWriteReadBlock(addr, write_data, read_buffer, inner) ==
    LET r == openprot_write_read_block(addr, write_data, read_buffer, inner) IN
    /\ i2c' = [i2c EXCEPT !.transaction_count = @ + 1,
                          !.rep = I2cRep("adapter.write_read_block", I2C0, addr, r.res, r.buf)]
    /\ UNCHANGED <<mctpVars, dg>>

Ast1060WriteReadBlock(addr, write_data, read_lease, inner) ==
    LET r == ast1060_write_read_block(addr, write_data, read_lease, inner) IN
    /\ i2c' = [i2c EXCEPT !.rep = I2cRep("ast1060.write_read_block", I2C0, addr,
                                         r.res, r.buf)]
    /\ UNCHANGED <<mctpVars, dg>>

\* the mock and the adapter as constructed, no call made yet
I2cNew ==
    [hw |-> MockI2cHardwareNew,
     transaction_count |-> 0,
     rep |-> I2cRep("none", 0, 0, I2cOk(0), <<>>)]

----------------------------------------------------------------------------
(* Notifications of the MCTP server task (notifications.rs, generated by
   build_util::build_notifications: one bit for each notification name) *)

UART_IRQ_MASK == {"uart-irq"}

TIMER_MASK == {"timer"}

\* main: the mask handed to sys_recv_open,
\* notifications::UART_IRQ_MASK & notifications::TIMER_MASK
RecvMask == UART_IRQ_MASK \cap TIMER_MASK

\* the bits the branches of main's loop test msg.operation for
AnyNotification == UART_IRQ_MASK \cup TIMER_MASK

\* no notification posted, nothing in the UART
NoNotification == [posted |-> {}, rx |-> <<>>]

----------------------------------------------------------------------------
(* Initial states and the steps of the servers *)

Init ==
    /\ now = 0
    /\ timer = None
    /\ outstanding = <<>>
    /\ calls = [t \in AllTasks |-> IdleCall]
    /\ eid = OWN_EID
    /\ reqs = [h \in ReqSlots |-> FreeReq]
    /\ nextTag = 0
    /\ inbox = [h \in Cookies |-> <<>>]
    /\ tx = [buf |-> Bytes(0, <<>>), arg |-> None, tag |-> None, writes |-> <<>>,
             reps |-> <<>>]
    /\ crashed = FALSE
    /\ listeners = [k \in ListenerSlots |-> FreeListener]
    /\ ctl = [op |-> "none", reps |-> <<>>]
    /\ api = [t \in Tasks |-> NoObjects]
    /\ irq = NoNotification
    /\ i2c = I2cNew
    /\ dg = ServerImplNew("mock")

\* the digest server of either build, with the MCTP server idle beside it
InitDigest ==
    /\ now = 0
    /\ timer = None
    /\ outstanding = <<>>
    /\ calls = [t \in AllTasks |-> IdleCall]
    /\ eid = OWN_EID
    /\ reqs = [h \in ReqSlots |-> FreeReq]
    /\ nextTag = 0
    /\ inbox = [h \in Cookies |-> <<>>]
    /\ tx = [buf |-> Bytes(0, <<>>), arg |-> None, tag |-> None, writes |-> <<>>,
             reps |-> <<>>]
    /\ crashed = FALSE
    /\ listeners = [k \in ListenerSlots |-> FreeListener]
    /\ ctl = [op |-> "none", reps |-> <<>>]
    /\ api = [t \in Tasks |-> NoObjects]
    /\ irq = NoNotification
    /\ i2c = I2cNew
    /\ dg \in {ServerImplNew(b) : b \in Backends}

\* the reply of a digest operation
DigestReply(op, res) == [op |-> op, ok |-> res.ok, val |-> res.val, hw |-> res.hw]

\* the first n bytes of a lease
Take(b, n) == Bytes(n, SubSeq(b.data, 1, Min(Len(b.data), n)))

\* InOrderDigestImpl::init_sha256 / init_sha384 / init_sha512
DigestInit(alg, hwOk) ==
    /\ LET r == init_sha(dg, alg, hwOk) IN
       dg' = [r.s EXCEPT !.rep = DigestReply("init", r.res)]
    /\ UNCHANGED <<mctpVars, i2c>>

\* InOrderDigestImpl::update: the first len bytes of the lease are read
\* (readOk: read_range succeeds) and fed to the session
DigestUpdate(session_id, len, data, readOk, hwOk) ==
    /\ IF ~readOk
       THEN dg' = [dg EXCEPT !.rep = DigestReply("update", DigestErr("HardwareFailure", <<>>))]
       ELSE LET r == update(dg, session_id, Take(data, len), hwOk) IN
            dg' = [r.s EXCEPT !.rep = DigestReply("update", r.res)]
    /\ UNCHANGED <<mctpVars, i2c>>

\* InOrderDigestImpl::finalize_sha256 / finalize_sha384 / finalize_sha512
DigestFinalize(alg, session_id, hwOk) ==
    /\ LET r == finalize_internal(dg, alg, session_id, hwOk) IN
       dg' = [r.s EXCEPT !.rep = DigestReply("finalize", r.res)]
    /\ UNCHANGED <<mctpVars, i2c>>

\* a length check against the buffer size only
LengthRefusedOverLimit(len, data) == len > LEN_LIMIT

\* digest_oneshot_*: if len > data.len() || len > 1024
LengthRefused(len, data) == len > data.len \/ len > LEN_LIMIT

\* InOrderDigestImpl::digest_oneshot_sha256 / _sha384 / _sha512
DigestOneshot(alg, len, data, readOk, failAt) ==
    /\ IF LengthRefused(len, data)
       THEN dg' = [dg EXCEPT !.rep = DigestReply("oneshot", DigestErr("InvalidInputLength", <<>>))]
       ELSE IF ~readOk
       THEN dg' = [dg EXCEPT !.rep = DigestReply("oneshot", DigestErr("InvalidInputLength", <<>>))]
       ELSE LET r == compute_oneshot(dg, alg, Take(data, len), failAt) IN
            dg' = [r.s EXCEPT !.rep = DigestReply("oneshot", r.res)]
    /\ UNCHANGED <<mctpVars, i2c>>

\* The kernel clock advances; an expired timer is disarmed as it fires
Tick(d) ==
    /\ now + d <= MaxTime
    /\ now' = now + d
    /\ timer' = IF timer # None /\ timer[1] <= now + d THEN None ELSE timer
    /\ UNCHANGED <<outstanding, calls, eid, reqs, nextTag, inbox, tx, crashed>>
    /\ UNCHANGED <<listeners, ctl, api, irq, dg, i2c>>

\* MCTPOperation::recv -> Server::recv
ClientRecv(t, handle, timeout_millis, cap) ==
    /\ ~crashed
    /\ calls[t].st = "idle"
    /\ LET c0 == [calls EXCEPT ![t] = NewCall("recv", handle, timeout_millis, cap)]
           got == RouterRecv(inbox, handle)
       IN  IF got.msg # None
           THEN LET r == send_reply(c0, t, got.msg[1], cap) IN
                /\ calls' = r.calls
                /\ crashed' = r.crashed
                /\ inbox' = got.inbox
                /\ outstanding' = remove(outstanding, handle)
                /\ timer' = timer
           ELSE LET d == RecvDeadline(timer, now, timeout_millis)
                    ins == insert(outstanding, Entry(handle, t, d.deadline))
                IN  /\ timer' = d.timer
                    /\ calls' = c0
                    /\ inbox' = inbox
                    /\ IF ShouldInsert(outstanding, handle)
                       THEN /\ outstanding' = ins.map
                            /\ crashed' = ~ins.ok
                       ELSE UNCHANGED <<outstanding, crashed>>
    /\ UNCHANGED <<now, eid, reqs, nextTag, tx, listeners, ctl>>

\* Server::update(state.now)
ServerUpdate ==
    /\ ~crashed
    /\ \E stack_timeout \in StackTimeouts :
         LET tm == set_timer(timer, now, stack_timeout)
             s == Sweep(outstanding, 1,
                        [inbox |-> inbox, calls |-> calls,
                         marked |-> <<>>, crashed |-> FALSE], now)
         IN  /\ timer' = tm.timer
             /\ inbox' = s.inbox
             /\ calls' = s.calls
             /\ crashed' = s.crashed
             /\ outstanding' = IF s.crashed THEN outstanding
                               ELSE remove_all(outstanding, s.marked)
    /\ UNCHANGED <<now, eid, reqs, nextTag, tx, listeners, ctl, api, dg, i2c>>

\* Server::update with the notifications left as they are
Update == ServerUpdate /\ UNCHANGED irq

----------------------------------------------------------------------------
(* Outbound path: Server::send -> Router::send -> SerialSender::send *)

\* let mut msg_buf = [0; MAX_PAYLOAD]; read_range copies the lease into it
MsgBuf(buf) == Bytes(MAX_PAYLOAD, SubSeq(buf.data, 1, Min(Len(buf.data), MAX_PAYLOAD)))

\* Server::send, the slice handed to Router::send
SendArg(buf) == MsgBuf(buf)

\* Fragmenter: packets a payload is split into (get_mtu bytes each)
NumPackets(payload) ==
    IF payload.len = 0 THEN 1
    ELSE (payload.len + MTU_MAX - 1) \div MTU_MAX

\* Fragmenter::fragment: the i-th packet of a payload
Packet(payload, i) ==
    Bytes(Min(MTU_MAX, payload.len - (i - 1) * MTU_MAX),
          SubSeq(payload.data, (i - 1) * MTU_MAX + 1,
                 Min(i * MTU_MAX, Len(payload.data))))

\* SerialSender::send: one send_sync per Packet the fragmenter yields, its
\* result dropped; Complete ends the loop with the tag
SerialWrites(payload, failAt) ==
    [i \in 1..NumPackets(payload) |-> [data |-> payload, ok |-> i # failAt]]

SerialResult(writes, tag) == [ok |-> TRUE, val |-> tag]

\* Tag allocation: the counter's next value not in use towards the same EID
TagInUse(rq, e, v) ==
    \E h \in ReqSlots : rq[h].used /\ rq[h].eid = e /\ rq[h].tag = Some(v)

AllocTag(rq, e, ctr) ==
    IF \A k \in 0..(TAG_SPACE - 1) : TagInUse(rq, e, (ctr + k) % TAG_SPACE)
    THEN None
    ELSE LET k == CHOOSE k \in 0..(TAG_SPACE - 1) :
                    /\ ~TagInUse(rq, e, (ctr + k) % TAG_SPACE)
                    /\ \A j \in 0..(k - 1) : TagInUse(rq, e, (ctr + j) % TAG_SPACE)
         IN  Some((ctr + k) % TAG_SPACE)

\* Router::send, up to the call of the Sender: Err(code) or the tag to use.
\* A request channel with a request in flight or a response not yet
\* received by its owner refuses another send.
RouterSendTag(rq, ib, ctr, handle, eidArg, tagArg, payload) ==
    IF payload.len > MAX_PAYLOAD THEN [ok |-> FALSE, val |-> NoSpace]
    ELSE IF tagArg # None
         THEN IF eidArg # None THEN [ok |-> TRUE, val |-> tagArg[1]]
              ELSE [ok |-> FALSE, val |-> BadArgument]
         ELSE IF ~IsReq(rq, handle) \/ rq[handle].tag # None \/ ib[handle] # <<>>
              THEN [ok |-> FALSE, val |-> BadArgument]
              ELSE LET a == AllocTag(rq, rq[handle].eid, ctr) IN
                   IF a = None THEN [ok |-> FALSE, val |-> NoSpace]
                   ELSE [ok |-> TRUE, val |-> a[1]]

\* the tag argument Server::send hands to Router::send: a tag the caller
\* supplied is wrapped as an owned tag
RouterTagArg(tagArg) ==
    IF tagArg = None THEN None
    ELSE Some([owner |-> TRUE, val |-> tagArg[1]])

\* MCTPOperation::req -> Server::req: the first free slot becomes a request
\* channel to EID e and its index is the handle replied
ClientReq(t, e) ==
    /\ ~crashed
    /\ calls[t].st = "idle"
    /\ IF \A h \in ReqSlots : reqs[h].used
       THEN /\ reqs' = reqs
            /\ ctl' = [op |-> "req", reps |-> <<Reply(ServerErrorFrom("NoSpace"), <<>>)>>]
       ELSE LET h == CHOOSE h \in ReqSlots :
                       ~reqs[h].used /\ \A g \in 0..(h - 1) : reqs[g].used
            IN  /\ reqs' = [reqs EXCEPT ![h] = [used |-> TRUE, eid |-> e, tag |-> None]]
                /\ ctl' = [op |-> "req", reps |-> <<Reply(0, <<h>>)>>]
    /\ UNCHANGED <<now, timer, outstanding, calls, eid, nextTag, inbox, tx, crashed,
                   listeners>>

\* MCTPOperation::listener -> Server::listener
ClientListener(t, typ) ==
    /\ ~crashed
    /\ calls[t].st = "idle"
    /\ LET r == RouterListener(listeners, typ) IN
       IF r.ok
       THEN /\ listeners' = [listeners EXCEPT ![r.slot] = [used |-> TRUE, typ |-> typ]]
            /\ ctl' = [op |-> "listener",
                       reps |-> <<Reply(0, <<ListenerHandle(r.slot)>>)>>]
       ELSE /\ listeners' = listeners
            /\ ctl' = [op |-> "listener",
                       reps |-> <<Reply(ServerErrorFrom(r.err), <<>>)>>]
    /\ UNCHANGED <<now, timer, outstanding, calls, eid, reqs, nextTag, inbox, tx,
                   crashed>>

\* a get_eid that answers the EID the server was started with
ClientGetEidInitial(t) ==
    /\ ~crashed
    /\ calls[t].st = "idle"
    /\ ctl' = [op |-> "get_eid", reps |-> <<Reply(0, <<OWN_EID>>)>>]
    /\ UNCHANGED <<now, timer, outstanding, calls, eid, reqs, nextTag, inbox, tx,
                   crashed, listeners>>

\* MCTPOperation::get_eid -> Server::get_eid
ClientGetEid(t) ==
    /\ ~crashed
    /\ calls[t].st = "idle"
    /\ ctl' = [op |-> "get_eid", reps |-> <<Reply(0, <<eid>>)>>]
    /\ UNCHANGED <<now, timer, outstanding, calls, eid, reqs, nextTag, inbox, tx,
                   crashed, listeners>>

\* MCTPOperation::set_eid -> Server::set_eid
ClientSetEid(t, e) ==
    /\ ~crashed
    /\ calls[t].st = "idle"
    /\ IF ReservedEid(e)
       THEN /\ eid' = eid
            /\ ctl' = [op |-> "set_eid",
                       reps |-> <<Reply(ServerErrorFrom("BadArgument"), <<>>)>>]
       ELSE /\ eid' = e
            /\ ctl' = [op |-> "set_eid", reps |-> <<Reply(0, <<>>)>>]
    /\ UNCHANGED <<now, timer, outstanding, calls, reqs, nextTag, inbox, tx,
                   crashed, listeners>>

\* MCTPOperation::send -> Server::send.  The NoSpace reply to an oversize
\* buffer does not end the handler: the lease is then read into msg_buf
\* (readOk: whether read_range, of idol_runtime, succeeds) and sent.
ClientSend(t, handle, typ, eidArg, tagArg, ic, buf, readOk, failAt) ==
    /\ ~crashed
    /\ calls[t].st = "idle"
    /\ LET r1 == IF MAX_PAYLOAD < buf.len
                 THEN <<Reply(NoSpace, <<>>)>>
                 ELSE <<>>
           arg == SendArg(buf)
           rt == RouterSendTag(reqs, inbox, nextTag, handle, eidArg, tagArg, arg)
           writes == SerialWrites(arg, failAt)
           res == IF rt.ok THEN SerialResult(writes, rt.val) ELSE rt
       IN  IF ~readOk
           THEN \* read_range fails: todo!("client died?")
                /\ crashed' = TRUE
                /\ tx' = [buf |-> buf, arg |-> None, tag |-> None, writes |-> <<>>,
                          reps |-> r1]
                /\ UNCHANGED <<reqs, nextTag>>
           ELSE /\ crashed' = FALSE
                /\ tx' = [buf |-> buf, arg |-> Some(arg), tag |-> RouterTagArg(tagArg),
                          writes |-> IF rt.ok THEN writes ELSE <<>>,
                          reps |-> Append(r1, IF res.ok
                                              THEN Reply(0, <<res.val>>)
                                              ELSE Reply(res.val, <<>>))]
                /\ IF res.ok /\ tagArg = None
                   THEN /\ reqs' = [reqs EXCEPT ![handle].tag = Some(res.val)]
                        /\ nextTag' = (res.val + 1) % TAG_SPACE
                   ELSE UNCHANGED <<reqs, nextTag>>
    /\ UNCHANGED <<now, timer, outstanding, calls, eid, inbox, listeners, ctl>>

\* UART interrupt -> handle_recv -> Router::inbound, for a packet that
\* completes a message from src to dst: the response to the request in
\* flight towards src with this tag is queued for its channel and the tag
\* is released; any other message is dropped
RouterInbound(src, dst, tag, typ, payload) ==
    /\ ~crashed
    /\ LET hs == {h \in ReqSlots : /\ reqs[h].used
                                   /\ reqs[h].eid = src
                                   /\ reqs[h].tag = Some(tag)}
       IN  IF dst = eid /\ hs # {}
           THEN LET h == CHOOSE h \in hs : TRUE IN
                /\ inbox' = [inbox EXCEPT ![h] =
                                 Append(@, Message(typ, FALSE, tag, src, payload))]
                /\ reqs' = [reqs EXCEPT ![h].tag = None]
           ELSE UNCHANGED <<inbox, reqs>>
    /\ UNCHANGED <<now, timer, outstanding, calls, eid, nextTag, tx, crashed>>
    /\ UNCHANGED <<listeners, ctl, api, dg, i2c>>

\* a response of the peer taken in with the notifications left as they are
Inbound(src, dst, tag, typ, payload) ==
    RouterInbound(src, dst, tag, typ, payload) /\ UNCHANGED irq

\* UART interrupt for a packet that completes a request of the peer (tag
\* owner bit set): it is queued for the listener of its type, if there is one
InboundRequest(src, dst, tag, typ, payload) ==
    /\ ~crashed
    /\ LET ks == {k \in ListenerSlots : listeners[k].used /\ listeners[k].typ = typ}
       IN  IF dst = eid /\ ks # {}
           THEN LET k == CHOOSE k \in ks : TRUE IN
                inbox' = [inbox EXCEPT ![ListenerHandle(k)] =
                              Append(@, Message(typ, FALSE, tag, src, payload))]
           ELSE UNCHANGED inbox
    /\ UNCHANGED <<now, timer, outstanding, calls, eid, reqs, nextTag, tx, crashed>>
    /\ UNCHANGED <<listeners, ctl, api, irq, dg, i2c>>

\* serial::handle_recv: the serial reader is run for received data and for a
\* character timeout, any other cause is Err(RxFailure)
handle_recv(interrupt, recvOk) ==
    IF interrupt \in {"RxDataAvailable", "CharacterTimeout"}
    THEN recvOk
    ELSE FALSE

\* UART interrupt for bytes that complete no message: main unwraps the
\* result of handle_recv and then the result of Router::inbound
UartInterrupt(interrupt, recvOk, inboundOk) ==
    /\ ~crashed
    /\ crashed' = ~(handle_recv(interrupt, recvOk) /\ inboundOk)
    /\ UNCHANGED <<now, timer, outstanding, calls, eid, reqs, nextTag, inbox, tx>>
    /\ UNCHANGED <<listeners, ctl, api, irq, dg, i2c>>

----------------------------------------------------------------------------
(* Client side: the mctp-api objects (task/mctp-api/src/lib.rs) *)

serverVars ==
    <<now, timer, outstanding, calls, eid, reqs, nextTag, inbox, tx, crashed,
      listeners, ctl>>

Ret(fn, val, ipc) == [fn |-> fn, val |-> val, ipc |-> ipc]

\* Stack::req
ApiReq(t, e, timeout) ==
    /\ UNCHANGED <<irq, dg, i2c>>
    /\ api[t].pend = "none"
    /\ api[t].chan = None
    /\ ClientReq(t, e)
    /\ LET r == ctl'.reps[1] IN
       api' = [api EXCEPT
                 ![t].chan = IF r.code = 0
                             THEN Some([handle |-> r.data[1], eid |-> e,
                                        sent_tag |-> None, timeout |-> timeout])
                             ELSE @,
                 ![t].ret = Ret("Stack.req", r.code, TRUE)]

\* MctpReqChannel::send: if self.sent_tag.is_some() { return Err(BadArgument) }
SendRefusedNever(ch) == FALSE

SendRefused(ch) == ch.sent_tag # None

\* MctpReqChannel::recv: let Some(Tag::Owned(tv)) = self.sent_tag else {
\* return Err(BadArgument) }
RecvRefused(ch) == ch.sent_tag = None

\* MctpReqChannel::send
ChanSend(t, typ, buf) ==
    /\ UNCHANGED <<irq, dg, i2c>>
    /\ api[t].pend = "none"
    /\ api[t].chan # None
    /\ LET ch == api[t].chan[1] IN
       IF SendRefused(ch)
       THEN /\ api' = [api EXCEPT ![t].ret = Ret("ReqChannel.send", BadArgument, FALSE)]
            /\ UNCHANGED serverVars
       ELSE /\ ClientSend(t, ch.handle, typ, None, None, FALSE, buf, TRUE, 0)
            /\ LET r == tx'.reps[1] IN
               api' = [api EXCEPT
                         ![t].chan = IF r.code = 0
                                     THEN Some([ch EXCEPT !.sent_tag = Some(r.data[1])])
                                     ELSE @,
                         ![t].ret = Ret("ReqChannel.send", r.code, TRUE)]

\* MctpReqChannel::recv, up to the IPC call
ChanRecvCall(t, cap) ==
    /\ UNCHANGED <<irq, dg, i2c>>
    /\ api[t].pend = "none"
    /\ api[t].chan # None
    /\ LET ch == api[t].chan[1] IN
       IF RecvRefused(ch)
       THEN /\ api' = [api EXCEPT ![t].ret = Ret("ReqChannel.recv", BadArgument, FALSE)]
            /\ UNCHANGED serverVars
       ELSE /\ ClientRecv(t, ch.handle, ch.timeout, cap)
            /\ api' = [api EXCEPT ![t].pend = "ReqChannel.recv"]

\* Stack::listener
ApiListener(t, typ, timeout) ==
    /\ UNCHANGED <<irq, dg, i2c>>
    /\ api[t].pend = "none"
    /\ api[t].lis = None
    /\ ClientListener(t, typ)
    /\ LET r == ctl'.reps[1] IN
       api' = [api EXCEPT
                 ![t].lis = IF r.code = 0
                            THEN Some([handle |-> r.data[1], timeout |-> timeout])
                            ELSE @,
                 ![t].ret = Ret("Stack.listener", r.code, TRUE)]

\* MctpListener::recv, up to the IPC call
LisRecvCall(t, cap) ==
    /\ UNCHANGED <<irq, dg, i2c>>
    /\ api[t].pend = "none"
    /\ api[t].lis # None
    /\ ClientRecv(t, api[t].lis[1].handle, api[t].lis[1].timeout, cap)
    /\ api' = [api EXCEPT ![t].pend = "Listener.recv", ![t].resp = None]

\* MctpReqChannel::recv and MctpListener::recv, from the IPC reply on: the
\* request channel keeps its sent_tag; the listener mints a response channel
\* on its own handle
ApiRecvReturn(t) ==
    /\ UNCHANGED <<irq, dg, i2c>>
    /\ api[t].pend # "none"
    /\ calls[t].st = "idle"
    /\ LET r == calls[t].reps[1] IN
       api' = [api EXCEPT
                 ![t].pend = "none",
                 ![t].ret = Ret(api[t].pend, r.code, TRUE),
                 ![t].resp = IF api[t].pend = "Listener.recv" /\ r.code = 0
                             THEN Some([handle |-> api[t].lis[1].handle,
                                        eid |-> r.data[4], typ |-> r.data[1],
                                        tv |-> r.data[3]])
                             ELSE @]
    /\ UNCHANGED serverVars

\* MctpRespChannel::send
RespSend(t, buf) ==
    /\ UNCHANGED <<irq, dg, i2c>>
    /\ api[t].pend = "none"
    /\ api[t].resp # None
    /\ LET rc == api[t].resp[1] IN
       ClientSend(t, rc.handle, rc.typ, Some(rc.eid), Some(rc.tv), FALSE, buf, TRUE, 0)
    /\ api' = [api EXCEPT ![t].ret = Ret("RespChannel.send", tx'.reps[1].code, TRUE)]

\* the task drops its MctpListener (and the response channel borrowed from
\* it): the types have no Drop, nothing is sent to the server
DropListener(t) ==
    /\ UNCHANGED <<irq, dg, i2c>>
    /\ api[t].pend = "none"
    /\ api[t].lis # None
    /\ api' = [api EXCEPT ![t].lis = None, ![t].resp = None]
    /\ UNCHANGED serverVars

ClockStep == \E d \in TickSteps : Tick(d)

\* a req call while fewer than limit request channels are open
ReqStep(limit) ==
    /\ Cardinality({h \in ReqSlots : reqs[h].used}) < limit
    /\ \E t \in Tasks, e \in RemoteEids : ClientReq(t, e)
    /\ UNCHANGED <<api, irq, dg, i2c>>

RecvStep(timeouts, caps) ==
    /\ \E t \in Tasks, h \in Handles, to \in timeouts, cap \in caps :
          ClientRecv(t, h, to, cap)
    /\ UNCHANGED <<api, irq, dg, i2c>>

\* a send of one of bufs; canFail: the lease read may fail, and the first or
\* the last UART write
SendStep(bufs, canFail) ==
    /\ \E t \in Tasks, h \in Handles, typ \in MsgTypes, buf \in bufs :
          \E readOk \in (IF canFail THEN BOOLEAN ELSE {TRUE}) :
            \E failAt \in (IF canFail THEN {0, 1, NumPackets(SendArg(buf))} ELSE {0}) :
                ClientSend(t, h, typ, None, None, FALSE, buf, readOk, failAt)
    /\ UNCHANGED <<api, irq, dg, i2c>>

InboundStep(payloads) ==
    \E src \in RemoteEids, tag \in InTags, typ \in MsgTypes,
       payload \in payloads :
        Inbound(src, OWN_EID, tag, typ, payload)

\* The server with its clock and timeouts; sends are well-formed and the
\* transport is healthy
Next ==
    \/ ClockStep
    \/ ReqStep(MaxReqs)
    \/ RecvStep(Timeouts, {4})
    \/ SendStep({Ping}, FALSE)
    \/ InboundStep({Pong})
    \/ Update

Spec == Init /\ [][Next]_vars

\* Receive calls, the clock and the timeout sweep with no traffic on the line
NextTimer ==
    \/ ClockStep
    \/ RecvStep(Timeouts, {4})
    \/ Update

SpecTimer == Init /\ [][NextTimer]_vars

\* Receive calls with a deadline that expire while requests go out and
\* responses of the peer arrive
NextExpiry ==
    \/ ClockStep
    \/ ReqStep(MaxReqs)
    \/ RecvStep(Timeouts \ {0}, {4})
    \/ SendStep({Ping}, FALSE)
    \/ InboundStep({Pong})
    \/ Update

SpecExpiry == Init /\ [][NextExpiry]_vars

\* The outbound path with every send input, a failing lease read and a
\* failing transport
NextSend ==
    \/ ReqStep(MaxReqs)
    \/ RecvStep({0}, RecvCaps)
    \/ SendStep(SendBufs, TRUE)
    \/ InboundStep(InPayloads)

SpecSend == Init /\ [][NextSend]_vars

UartStep ==
    \E interrupt \in InterruptDecoding, recvOk \in BOOLEAN, inboundOk \in BOOLEAN :
        UartInterrupt(interrupt, recvOk, inboundOk)

\* The server on a line that also carries noise: interrupts of every cause,
\* bytes the serial reader rejects and packets the Router rejects
NextUart ==
    \/ ReqStep(MaxReqs)
    \/ RecvStep({0}, {4})
    \/ SendStep({Ping}, FALSE)
    \/ InboundStep({Pong})
    \/ UartStep
    \/ Update

SpecUart == Init /\ [][NextUart]_vars

\* The k-th caller, once the callers before it are blocked, calls recv on
\* handle k - 1 with any timeout
CrowdRecvStep ==
    /\ \E k \in 1..Len(Callers), to \in Timeouts :
          /\ \A j \in 1..(k - 1) : calls[Callers[j]].st = "blocked"
          /\ ClientRecv(Callers[k], k - 1, to, 4)
    /\ UNCHANGED <<api, irq, dg, i2c>>

\* Every client task of the image blocked in recv at once, each on a handle
\* of its own
NextCrowd == CrowdRecvStep

SpecCrowd == Init /\ [][NextCrowd]_vars

\* Request channels opened until the table is full and beyond, with traffic
\* on the first channels
NextTable ==
    \/ ReqStep(MAX_REQUESTS + 1)
    \/ RecvStep({0}, {4})
    \/ SendStep({Ping}, FALSE)
    \/ InboundStep({Pong})

SpecTable == Init /\ [][NextTable]_vars

DropListenerStep == \E t \in Tasks : DropListener(t)

ListenerStep == \E t \in Tasks, typ \in MsgTypes : ApiListener(t, typ, 0)

SetEidStep ==
    /\ \E t \in Tasks, e \in EidInputs : ClientSetEid(t, e)
    /\ UNCHANGED <<api, irq, dg, i2c>>

GetEidStep ==
    /\ \E t \in Tasks : ClientGetEid(t)
    /\ UNCHANGED <<api, irq, dg, i2c>>

\* The control operations: listeners registered and dropped, the EID set
\* and read, request channels opened
NextCtl ==
    \/ ListenerStep
    \/ DropListenerStep
    \/ SetEidStep
    \/ GetEidStep
    \/ ReqStep(MaxReqs)

SpecCtl == Init /\ [][NextCtl]_vars

\* The kernel clock advances; a timer that expires is disarmed and posts the
\* bits it was armed with (set_timer_relative(.., TIMER_MASK))
KernelTick(d) ==
    /\ now + d <= MaxTime
    /\ now' = now + d
    /\ IF timer # None /\ timer[1] <= now + d
       THEN /\ timer' = None
            /\ irq' = [irq EXCEPT !.posted = @ \cup TIMER_MASK]
       ELSE UNCHANGED <<timer, irq>>
    /\ UNCHANGED <<outstanding, calls, eid, reqs, nextTag, inbox, tx, crashed>>
    /\ UNCHANGED <<listeners, ctl, api, dg, i2c>>

KernelTickStep == \E d \in TickSteps : KernelTick(d)

\* The last packet of a response of the peer reaches the UART, whose
\* interrupt SerialSender::new enabled: UART_IRQ_MASK is posted
UartRx(src, dst, tag, typ, payload) ==
    /\ irq.rx = <<>>
    /\ irq' = [posted |-> irq.posted \cup UART_IRQ_MASK,
               rx |-> <<[src |-> src, dst |-> dst, tag |-> tag, typ |-> typ,
                         payload |-> payload]>>]
    /\ UNCHANGED <<now, timer, outstanding, calls, eid, reqs, nextTag, inbox, tx>>
    /\ UNCHANGED <<crashed, listeners, ctl, api, dg, i2c>>

UartRxStep ==
    \E src \in RemoteEids, tag \in InTags, typ \in MsgTypes :
        UartRx(src, OWN_EID, tag, typ, Pong)

\* main, the pass for a UART notification: handle_recv(..).unwrap_lite(),
\* server.stack.inbound(pkt).unwrap_lite(), continue
UartBranch(op) ==
    IF irq.rx # <<>> /\ handle_recv("RxDataAvailable", TRUE)
    THEN LET p == irq.rx[1] IN
         /\ RouterInbound(p.src, p.dst, p.tag, p.typ, p.payload)
         /\ irq' = [posted |-> irq.posted \ op, rx |-> <<>>]
    ELSE /\ ~crashed
         /\ crashed' = TRUE
         /\ irq' = [irq EXCEPT !.posted = @ \ op]
         /\ UNCHANGED <<now, timer, outstanding, calls, eid, reqs, nextTag, inbox>>
         /\ UNCHANGED <<tx, listeners, ctl, api, dg, i2c>>

\* main, the pass for a timer notification: server.update(state.now), continue
TimerBranch(op) ==
    /\ ServerUpdate
    /\ irq' = [irq EXCEPT !.posted = @ \ op]

\* the client calls main hands to handle_mctp_msg
ClientCallStep ==
    \/ ReqStep(MaxReqs)
    \/ RecvStep(Timeouts, {4})
    \/ SendStep({Ping}, FALSE)

\* One pass of main's loop.  sys_recv_open(mask) returns the posted bits
\* that are in mask, if there are any, before any client's message.
MainLoop(mask) ==
    LET op == irq.posted \cap mask IN
    IF op # {}
    THEN IF op \cap UART_IRQ_MASK # {}
         THEN UartBranch(op)
         ELSE TimerBranch(op)
    ELSE ClientCallStep

\* a pass of the loop for a notification
Notified(mask) == irq.posted \cap mask # {} /\ MainLoop(mask)

\* The server task as main runs it, with the mask main passes to the kernel
NextLoop ==
    \/ KernelTickStep
    \/ UartRxStep
    \/ MainLoop(RecvMask)

\* the loop is scheduled whenever it has a message to take, and the clock runs
SpecLoop ==
    /\ Init
    /\ [][NextLoop]_vars
    /\ WF_vars(MainLoop(RecvMask))
    /\ WF_vars(KernelTickStep)

\* The passes of the loop for every message it has a branch for, each posted
\* notification being handed to it
NextBranches ==
    \/ KernelTickStep
    \/ UartRxStep
    \/ MainLoop(AnyNotification)

\* a posted notification is taken in the end and the clock runs; no client
\* is bound to call again
SpecBranches ==
    /\ Init
    /\ [][NextBranches]_vars
    /\ WF_vars(Notified(AnyNotification))
    /\ WF_vars(KernelTickStep)

\* Steps of the digest server's client.  hw: the outcomes the hardware may
\* have (TRUE: the call succeeds)
DigestInitStep(hw) ==
    /\ dg.next_session_id <= MaxSessions
    /\ \E alg \in Algorithms, hwOk \in hw : DigestInit(alg, hwOk)

DigestUpdateStep(hw) ==
    /\ (dg.current_session # None /\ dg.current_session[1].context # None)
          => Len(dg.current_session[1].context[1]) < MaxChunks
    /\ \E session_id \in SessionIds, l \in UpdateLeases, hwOk \in hw :
          DigestUpdate(session_id, l.len, l.data, l.len <= l.data.len, hwOk)

DigestFinalizeStep(hw) ==
    \E alg \in Algorithms, session_id \in SessionIds, hwOk \in hw :
        DigestFinalize(alg, session_id, hwOk)

DigestOneshotStep(hw) ==
    \E alg \in Algorithms, l \in OneshotLeases :
        \E failAt \in (IF FALSE \in hw THEN 0..3 ELSE {0}) :
            DigestOneshot(alg, l.len, l.data, TRUE, failAt)

\* The digest server on hardware that does not fail, with clients that also
\* pass wrong session ids, wrong algorithms and wrong lengths
NextDigest ==
    \/ DigestInitStep({TRUE})
    \/ DigestUpdateStep({TRUE})
    \/ DigestFinalizeStep({TRUE})
    \/ DigestOneshotStep({TRUE})

SpecDigest == InitDigest /\ [][NextDigest]_vars

\* The digest server on hardware whose calls may fail
NextDigestHw ==
    \/ DigestInitStep(BOOLEAN)
    \/ DigestUpdateStep(BOOLEAN)
    \/ DigestFinalizeStep(BOOLEAN)
    \/ DigestOneshotStep(BOOLEAN)

SpecDigestHw == InitDigest /\ [][NextDigestHw]_vars

\* Calls of the I2C mock: a hardware controller and one that is none, a
\* device at 0x50, one at a reserved address and one on a controller that is
\* never called
MaxDevices == 2
Controllers == {I2C0, ControllerMock}
I2cAddrs == {3, 80}
MockDevices == {<<I2C0, 80>>, <<I2C0, 3>>, <<I2C7, 80>>}
InjectedErrors == {"BusLocked", "NoDevice"}
WriteDatas == {<<>>, <<16>>}
ReadBuffers == {<<>>, <<165>>, <<0, 0, 0, 0>>}

MockAddDeviceStep ==
    /\ Len(i2c.hw.responding_devices) < MaxDevices
    /\ \E d \in MockDevices : MockAddDevice(d[1], d[2])

MockInjectErrorStep == \E e \in InjectedErrors : MockInjectError(e)

MockEnableControllerStep == \E c \in Controllers : MockEnableController(c)

MockDisableControllerStep == \E c \in Controllers : MockDisableController(c)

MockResetBusStep == \E c \in Controllers : MockResetBus(c)

MockWriteReadStep ==
    \E c \in Controllers, a \in I2cAddrs, w \in WriteDatas, b \in ReadBuffers :
        MockWriteRead(c, a, w, b)

MockWriteReadBlockStep ==
    \E c \in Controllers, a \in I2cAddrs, w \in WriteDatas, b \in ReadBuffers :
        MockWriteReadBlock(c, a, w, b)

NextMock ==
    \/ MockAddDeviceStep
    \/ MockInjectErrorStep
    \/ MockEnableControllerStep
    \/ MockDisableControllerStep
    \/ MockResetBusStep
    \/ MockWriteReadStep
    \/ MockWriteReadBlockStep

SpecMock == Init /\ [][NextMock]_vars

\* Calls of the adapter and of the AST1060 server: the device sends a block
\* of two bytes, an empty block, a block of four, or a length above the
\* SMBus limit; or the hardware fails
MaxTransactions == 2
HwErrorKinds == {"Bus", "ArbitrationLoss", "NoAcknowledge", "Other"}
DeviceBytes == {<<2, 170, 187>>, <<0>>, <<4, 1, 2, 3, 4>>, <<33>>}
HwOutcomes == {HwOk(b) : b \in DeviceBytes} \cup {HwErr(k) : k \in HwErrorKinds}
BlockBuffers == {<<>>, <<165>>, <<0, 0, 0, 0>>}
BlockAddrs == {80}

AdapterInjectErrorStep ==
    \E a \in BlockAddrs, k \in HwErrorKinds : AdapterInjectError(a, k)

AdapterWriteReadStep ==
    /\ i2c.transaction_count < MaxTransactions
    /\ \E a \in BlockAddrs, w \in WriteDatas, b \in BlockBuffers, h \in HwOutcomes :
          AdapterWriteRead(a, w, b, h)

AdapterWriteReadBlockStep ==
    /\ i2c.transaction_count < MaxTransactions
    /\ \E a \in BlockAddrs, w \in WriteDatas, b \in BlockBuffers, h \in HwOutcomes :
          AdapterWriteReadBlock(a, w, b, h)

Ast1060WriteReadBlockStep ==
    \E a \in BlockAddrs, w \in WriteDatas, b \in BlockBuffers, h \in HwOutcomes :
        Ast1060WriteReadBlock(a, w, b, h)

NextAdapter ==
    \/ AdapterInjectErrorStep
    \/ AdapterWriteReadStep
    \/ AdapterWriteReadBlockStep
    \/ Ast1060WriteReadBlockStep

SpecAdapter == Init /\ [][NextAdapter]_vars

\* Steps of the client tasks through the mctp-api objects
ApiReqStep == \E t \in Requesters, e \in RemoteEids : ApiReq(t, e, 0)

ChanSendStep == \E t \in Requesters, typ \in MsgTypes : ChanSend(t, typ, Ping)

ChanRecvStep == \E t \in Requesters : ChanRecvCall(t, 4)

ApiListenerStep == \E t \in Responders, typ \in MsgTypes : ApiListener(t, typ, 0)

LisRecvStep == \E t \in Responders : LisRecvCall(t, 5)

ApiRecvReturnStep == \E t \in Tasks : ApiRecvReturn(t)

RespSendStep == \E t \in Responders : RespSend(t, Pong)

InboundRequestStep ==
    /\ \A h \in ListenerHandles : Len(inbox[h]) < MaxInbox
    /\ \E src \in RemoteEids, tag \in InTags, typ \in MsgTypes :
          InboundRequest(src, OWN_EID, tag, typ, Hello)

\* Client tasks driving the server through the mctp-api objects, with a peer
\* that answers requests and sends its own
NextApi ==
    \/ ApiReqStep
    \/ ChanSendStep
    \/ ChanRecvStep
    \/ ApiListenerStep
    \/ LisRecvStep
    \/ ApiRecvReturnStep
    \/ RespSendStep
    \/ InboundStep({Pong})
    \/ InboundRequestStep
    \/ Update

SpecApi == Init /\ [][NextApi]_vars

----------------------------------------------------------------------------
(* Properties *)

Codes(t) == {calls[t].reps[i].code : i \in 1..Len(calls[t].reps)}

NoMessageFor(h) == inbox[h] = <<>>

\* C1: a receive call postponed with timeout_ms = 0 (deadline 0, "no
\* timeout") is never completed with TimedOut, whatever updates happen.
C1_NoTimeoutNeverTimedOut ==
    \A t \in Tasks :
        (calls[t].op = "recv" /\ calls[t].timeout = 0) => TimedOut \notin Codes(t)

\* C2: a postponed receive call ends in exactly one outcome: no caller is
\* sent two replies for one recv call (delivered and TimedOut in one sweep).
C2_OneReplyPerRecv ==
    \A t \in Tasks : calls[t].op = "recv" => Len(calls[t].reps) <= 1

\* C3: a recv with timeout 100 postponed at time T gets the deadline T + 100;
\* with no message for it, an update before T + 100 (T + 99) leaves the call
\* pending in the table, and an update at T + 100 or later completes it with
\* TimedOut and removes the entry.
C3_TimeoutBoundary ==
    [][ /\ \A t \in Tasks, h \in Handles :
              (NoMessageFor(h) /\ ~contains_key(outstanding, h)
                  /\ ClientRecv(t, h, 100, 4))
              => Entry(h, t, now + 100) \in Range(outstanding')
        /\ \A i \in 1..Len(outstanding) :
              LET e == outstanding[i]
                  c == calls[e.sender]
              IN  (c.timeout = 100 /\ NoMessageFor(e.handle) /\ Update) =>
                    IF now < e.deadline
                    THEN /\ e \in Range(outstanding')
                         /\ calls'[e.sender] = c
                    ELSE /\ ~contains_key(outstanding', e.handle)
                         /\ calls'[e.sender].reps = <<Reply(TimedOut, <<>>)>>
      ]_vars

C3_Witness ==
    \E t \in Tasks :
        /\ calls[t].op = "recv"
        /\ calls[t].timeout = 100
        /\ now = 100
        /\ calls[t].reps = <<Reply(TimedOut, <<>>)>>
        /\ ~contains_key(outstanding, calls[t].handle)

\* C4: the outstanding table holds at most one entry per handle, and a recv
\* that finds no ready message while an entry for its handle exists leaves
\* the table (the entry's caller and deadline) unchanged.
C4_FirstWriterWins ==
    [][ /\ \A i, j \in 1..Len(outstanding') :
              outstanding'[i].handle = outstanding'[j].handle => i = j
        /\ \A t \in Tasks, h \in Handles, to \in Timeouts :
              (NoMessageFor(h) /\ contains_key(outstanding, h)
                  /\ ClientRecv(t, h, to, 4))
              => outstanding' = outstanding
      ]_vars

C4_Witness ==
    \E i \in 1..Len(outstanding), t \in Tasks :
        /\ t # outstanding[i].sender
        /\ calls[t].op = "recv"
        /\ calls[t].handle = outstanding[i].handle
        /\ calls[t].timeout # calls[outstanding[i].sender].timeout
        /\ calls[t].st = "blocked"
        /\ calls[outstanding[i].sender].st = "blocked"

\* C5: after every update the wake timer is armed no later than the soonest
\* of now + the Router's timeout and the smallest nonzero deadline among the
\* remaining outstanding entries.
C5_TimerCoversDeadlines ==
    [][ Update =>
          /\ timer' # None
          /\ \E st \in StackTimeouts : timer'[1] <= now + st
          /\ \A i \in 1..Len(outstanding') :
                outstanding'[i].deadline # 0 => timer'[1] <= outstanding'[i].deadline
      ]_vars

\* C6: an update with no new inbound data and no outstanding deadline elapsed
\* (entries with the no-timeout deadline 0 included) leaves the outstanding
\* table unchanged, sends no reply, and a second update sets the same timer.
C6_UpdateIdempotent ==
    [][ ( /\ Update
          /\ \A i \in 1..Len(outstanding) :
                /\ NoMessageFor(outstanding[i].handle)
                /\ outstanding[i].deadline = 0 \/ now < outstanding[i].deadline )
        => /\ outstanding' = outstanding
           /\ calls' = calls
           /\ \A st \in StackTimeouts :
                 timer' = set_timer(timer, now, st).timer
                     => set_timer(timer', now, st).timer = timer'
      ]_vars

\* C7: the payload the server hands to Router.send for a client send has
\* exactly the length and bytes of the client's leased buffer.
C7_SendArgIsClientBuffer ==
    tx.arg # None => tx.arg[1] = tx.buf

\* C8: once a complete inbound message for handle H is held by the Router
\* (from the EID H was opened for, with the tag the send on H returned), a
\* recv(H, 0, buf) with room for it completes at once with the message's
\* bytes in buf and its type, tag, source EID and size as metadata, and
\* stores no outstanding entry for the caller.
C8_ReadyMessageDeliveredAtOnce ==
    [][ \A t \in Tasks, h \in Handles :
          (~NoMessageFor(h) /\ Head(inbox[h]).payload.len <= 4
              /\ ClientRecv(t, h, 0, 4))
          => LET m == Head(inbox[h]) IN
             /\ reqs[h].used /\ m.source = reqs[h].eid
             /\ calls'[t].st = "idle"
             /\ calls'[t].buf = m.payload
             /\ calls'[t].reps =
                    <<Reply(0, <<m.typ, 0, m.tag, m.source, m.payload.len>>)>>
             /\ \A i \in 1..Len(outstanding') : outstanding'[i].sender # t
      ]_vars

C8_Witness ==
    \E t2 \in Tasks, T \in 0..(TAG_SPACE - 1) :
        /\ eid = 42
        /\ tx.buf = Ping
        /\ tx.reps = <<Reply(0, <<T>>)>>
        /\ calls[t2].op = "recv"
        /\ reqs[calls[t2].handle].used
        /\ reqs[calls[t2].handle].eid = 8
        /\ calls[t2].timeout = 0
        /\ calls[t2].buf = Pong
        /\ calls[t2].reps = <<Reply(0, <<1, 0, T, 8, 4>>)>>
        /\ outstanding = <<>>

\* C9: a client send whose payload is longer than MAX_PAYLOAD is completed
\* with NoSpace: exactly one reply, Router.send not invoked, nothing written
\* to the transport, and the server keeps running.
C9_OversizeSendRejected ==
    [][ \A t \in Tasks, h \in Handles, buf \in SendBufs :
          (ClientSend(t, h, 1, None, None, FALSE, buf, TRUE, 0)
              /\ buf.len > MAX_PAYLOAD)
          => /\ tx'.reps = <<Reply(NoSpace, <<>>)>>
             /\ tx'.arg = None
             /\ tx'.writes = <<>>
             /\ ~crashed'
      ]_vars

\* C10: when a packet write to the serial transport fails during a send, the
\* send fails with InternalError and never reports success (a tag).
C10_TransportFailureFailsSend ==
    [][ \A t \in Tasks, h \in Handles, buf \in SendBufs :
          \A failAt \in 0..NumPackets(SendArg(buf)) :
            (ClientSend(t, h, 1, None, None, FALSE, buf, TRUE, failAt)
                /\ \E i \in 1..Len(tx'.writes) : ~tx'.writes[i].ok)
            => tx'.reps = <<Reply(InternalError, <<>>)>>
      ]_vars

\* C11: each write SerialSender::send issues to the serial transport carries
\* exactly one packet of the fragmenter, of at most get_mtu() bytes, one write
\* per packet, so that the packets concatenated are the payload.
C11_WritesArePackets ==
    tx.arg # None =>
        \A i \in 1..Len(tx.writes) :
            /\ Len(tx.writes) = NumPackets(tx.arg[1])
            /\ tx.writes[i].data = Packet(tx.arg[1], i)
            /\ tx.writes[i].data.len <= MTU_MAX

\* C12: a send with no tag supplied gets a freshly allocated owned tag from
\* the Router; a send with a tag supplied (a response) hands that tag to the
\* Router as an unowned tag of the same value and the value is replied.
C12_TagHandlingOnSend ==
    [][\A t \in Tasks, typ \in MsgTypes :
         /\ (ChanSend(t, typ, Ping) /\ api'[t].ret = Ret("ReqChannel.send", 0, TRUE))
               => /\ tx'.tag = None
                  /\ ~TagInUse(reqs, api[t].chan[1].eid, tx'.reps[1].data[1])
                  /\ api'[t].chan[1].sent_tag = Some(tx'.reps[1].data[1])
         /\ RespSend(t, Pong)
               => /\ tx'.tag = Some([owner |-> FALSE, val |-> api[t].resp[1].tv])
                  /\ tx'.reps = <<Reply(0, <<api[t].resp[1].tv>>)>>
      ]_vars

\* C13: errors on the inbound path never terminate the server: after a UART
\* interrupt of another cause than received data or character timeout, after
\* bytes the serial reader cannot decode and after a packet Router::inbound
\* rejects, the server is still running and takes the next message.
C13_InboundErrorsNonFatal ==
    [][\A interrupt \in InterruptDecoding, recvOk \in BOOLEAN, inboundOk \in BOOLEAN :
         UartInterrupt(interrupt, recvOk, inboundOk) => ~crashed'
      ]_vars

\* C14: no sequence of recv calls, whatever the handles and timeouts, makes
\* the server panic; the outstanding table never holds more than
\* MAX_OUTSTANDING entries, and a call that cannot be stored is answered with
\* an error.
C14_RecvNeverCrashes ==
    /\ ~crashed
    /\ Len(outstanding) <= MAX_OUTSTANDING
    /\ \A t \in AllTasks :
         calls[t].st = "blocked" => contains_key(outstanding, calls[t].handle)

\* C15: once send has succeeded on a request channel and the matching recv
\* has returned a message, the next send on the same channel is accepted,
\* not answered BadArgument.
C15_ChannelReusable ==
    [][\A t \in Tasks, typ \in MsgTypes :
         (ChanSend(t, typ, Ping) /\ api[t].ret = Ret("ReqChannel.recv", 0, TRUE))
            => api'[t].ret.val # BadArgument
      ]_vars

\* C16: a response channel is single-use: after one successful send on it a
\* second send on the same response channel is refused and puts no second
\* response with the same tag on the line.
C16_RespChannelSingleUse ==
    [][\A t \in Tasks :
         (RespSend(t, Pong) /\ api[t].ret = Ret("RespChannel.send", 0, TRUE))
            => /\ tx'.writes = <<>>
               /\ tx'.reps[1].code # 0
      ]_vars

\* C17: MctpReqChannel::send while a sent tag is recorded returns BadArgument
\* and MctpReqChannel::recv before any successful send returns BadArgument;
\* neither reaches the server (no server state, reply or transport write
\* changes) and the channel is left as it was.
C17_ReqChannelDiscipline ==
    [][\A t \in Tasks, typ \in MsgTypes :
         /\ (ChanSend(t, typ, Ping) /\ api[t].chan[1].sent_tag # None)
               => /\ api'[t].ret.val = BadArgument
                  /\ api'[t].chan = api[t].chan
                  /\ UNCHANGED serverVars
         /\ (ChanRecvCall(t, 4) /\ api[t].chan[1].sent_tag = None)
               => /\ api'[t].ret.val = BadArgument
                  /\ api'[t].pend = "none"
                  /\ api'[t].chan = api[t].chan
                  /\ UNCHANGED serverVars
      ]_vars

\* a send refused on a channel that holds the tag of an earlier send, in a
\* task whose channel was opened and used through the server
C17_Witness ==
    \E t \in Tasks :
        /\ api[t].ret = Ret("ReqChannel.send", BadArgument, FALSE)
        /\ api[t].chan # None
        /\ api[t].chan[1].sent_tag # None
        /\ reqs[api[t].chan[1].handle].used

\* the task holds the MctpListener of message type typ
HoldsListener(t, typ) ==
    /\ api[t].lis # None
    /\ listeners[api[t].lis[1].handle - MAX_REQUESTS].typ = typ

\* C18: listener(typ) while a task holds a listener of typ replies AddrInUse
\* and leaves the listeners as they are; once that listener has been
\* released, listener(typ) succeeds again.
C18_OneListenerPerType ==
    [][\A t \in Tasks, typ \in MsgTypes :
         ApiListener(t, typ, 0)
            => IF \E t2 \in Tasks : HoldsListener(t2, typ)
               THEN /\ ctl'.reps = <<Reply(AddrInUse, <<>>)>>
                    /\ listeners' = listeners
               ELSE ctl'.reps[1].code = 0
      ]_vars

\* C19: with MAX_REQUESTS request channels live, a further req replies
\* NoSpace and the channels issued so far keep their remote EID, their
\* pending messages and their outstanding receive calls.
C19_FullTableNoSpace ==
    [][\A t \in Tasks, e \in RemoteEids :
         (ClientReq(t, e) /\ Cardinality({h \in ReqSlots : reqs[h].used}) = MAX_REQUESTS)
            => /\ ctl'.reps = <<Reply(NoSpace, <<>>)>>
               /\ reqs' = reqs
               /\ inbox' = inbox
               /\ outstanding' = outstanding
      ]_vars

\* a req refused on a full table while one channel has a message pending
\* and another has a receive call parked
C19_Witness ==
    /\ ctl = [op |-> "req", reps |-> <<Reply(NoSpace, <<>>)>>]
    /\ \A h \in ReqSlots : reqs[h].used /\ reqs[h].eid \in RemoteEids
    /\ \E h \in ReqSlots : inbox[h] # <<>>
    /\ outstanding # <<>>

\* C20: the local EID starts as 42 and is never the null or the broadcast
\* EID; set_eid(0) and set_eid(255) reply BadArgument and leave it, set_eid
\* of any other value replaces it, nothing else changes it, and get_eid
\* replies the value set last.
C20_LocalEidValid ==
    /\ eid = OWN_EID
    /\ [](eid \notin {0, 255})
    /\ [][/\ \A t \in Tasks, e \in EidInputs :
              ClientSetEid(t, e)
                 => IF e \in {0, 255}
                    THEN ctl'.reps = <<Reply(BadArgument, <<>>)>> /\ eid' = eid
                    ELSE ctl'.reps = <<Reply(0, <<>>)>> /\ eid' = e
          /\ \A t \in Tasks :
              ClientGetEid(t) => ctl'.reps = <<Reply(0, <<eid>>)>> /\ eid' = eid
          /\ eid' # eid => \E t \in Tasks, e \in EidInputs : ClientSetEid(t, e)
        ]_vars

\* get_eid answers 8 after set_eid(8)
C20_Witness ==
    /\ eid = 8
    /\ ctl = [op |-> "get_eid", reps |-> <<Reply(0, <<8>>)>>]

\* the digest operation just replied the error e
DigestRefused(e) == ~dg'.rep.ok /\ dg'.rep.val = e

\* the number of digest sessions active in the server
ActiveSessions == IF dg.current_session = None THEN 0 ELSE 1

\* C21: the digest server admits sessions up to the backend's
\* MAX_CONCURRENT_SESSIONS (1 for HACE, 8 for the mock): init replies
\* TooManySessions exactly when that many sessions are active.
C21_SessionLimit ==
    [][\A alg \in Algorithms :
         DigestInit(alg, TRUE)
            => (DigestRefused("TooManySessions")
                  <=> ActiveSessions = MAX_SESSIONS(dg.backend))
      ]_vars

\* the session with this id is the server's current session
IsCurrent(s, session_id) ==
    s.current_session # None /\ s.current_session[1].session_id = session_id

\* C22: for each of SHA-256/384/512 init returns a session id, every update
\* with that id succeeds and feeds the session, and the finalize of that
\* algorithm with that id returns the digest of what was fed and ends the
\* session, leaving the server ready for an init of any algorithm.
C22_SessionLifecycle ==
    [][/\ \A alg \in Algorithms :
            (DigestInit(alg, TRUE) /\ dg.current_session = None /\ dg.hardware)
               => /\ dg'.rep.ok
                  /\ dg'.rep.val = dg.next_session_id
                  /\ dg'.current_session =
                        Some([session_id |-> dg.next_session_id, algorithm |-> alg,
                              context |-> Some(<<>>)])
       /\ \A session_id \in SessionIds, l \in UpdateLeases :
            (DigestUpdate(session_id, l.len, l.data, TRUE, TRUE) /\ IsCurrent(dg, session_id))
               => /\ dg'.rep.ok
                  /\ dg'.current_session =
                        Some([dg.current_session[1] EXCEPT
                                 !.context = Some(Append(@[1], Take(l.data, l.len)))])
       /\ \A alg \in Algorithms, session_id \in SessionIds :
            (/\ DigestFinalize(alg, session_id, TRUE)
             /\ IsCurrent(dg, session_id)
             /\ dg.current_session[1].algorithm = alg)
               => /\ dg'.rep.ok
                  /\ dg'.rep.val = DigestOf(alg, dg.current_session[1].context[1])
                  /\ dg'.current_session = None
                  /\ dg'.hardware
      ]_vars

\* the second session, of SHA-384, finalized after two updates
C22_Witness ==
    /\ dg.rep = [op |-> "finalize", ok |-> TRUE,
                 val |-> DigestOf("Sha384", <<Abc, Abc>>), hw |-> <<"finalize">>]
    /\ dg.next_session_id = 3
    /\ dg.current_session = None
    /\ dg.hardware

\* C23: update with a session id that is not the id of the active session,
\* or with no session active, replies InvalidSession, makes no hardware
\* call and leaves the session (id, algorithm, context), the controller and
\* next_session_id as they were.
C23_WrongSessionUpdate ==
    [][\A session_id \in SessionIds, l \in UpdateLeases, hwOk \in BOOLEAN :
         (DigestUpdate(session_id, l.len, l.data, TRUE, hwOk) /\ ~IsCurrent(dg, session_id))
            => /\ DigestRefused("InvalidSession")
               /\ dg'.rep.hw = <<>>
               /\ dg'.current_session = dg.current_session
               /\ dg'.hardware = dg.hardware
               /\ dg'.next_session_id = dg.next_session_id
      ]_vars

\* an update refused while session 2 is active with one chunk in its context
C23_Witness ==
    /\ dg.rep = [op |-> "update", ok |-> FALSE, val |-> "InvalidSession", hw |-> <<>>]
    /\ dg.current_session # None
    /\ dg.current_session[1].session_id = 2
    /\ dg.current_session[1].context = Some(<<Abc>>)
    /\ ~dg.hardware

\* C24: a one-shot digest whose declared len exceeds the lease or 1024
\* replies InvalidInputLength, makes no hardware call and leaves the
\* server's session, controller and next_session_id as they were.
C24_OneshotLengthChecked ==
    [][\A alg \in Algorithms, l \in OneshotLeases, failAt \in 0..3 :
         (/\ DigestOneshot(alg, l.len, l.data, TRUE, failAt)
          /\ (l.len > l.data.len \/ l.len > LEN_LIMIT))
            => /\ DigestRefused("InvalidInputLength")
               /\ dg'.rep.hw = <<>>
               /\ dg'.current_session = dg.current_session
               /\ dg'.hardware = dg.hardware
               /\ dg'.next_session_id = dg.next_session_id
      ]_vars

\* a one-shot digest refused for its length while the controller is free,
\* after a session has been run
C24_Witness ==
    /\ dg.rep = [op |-> "oneshot", ok |-> FALSE, val |-> "InvalidInputLength",
                 hw |-> <<>>]
    /\ dg.hardware
    /\ dg.current_session = None
    /\ dg.next_session_id = 2

\* C29: on hardware that does not fail, exactly one of "the controller is
\* available" and "a session is active" holds in every state, also after a
\* finalize of the wrong algorithm was answered UnsupportedAlgorithm.
C29_ControllerConserved ==
    dg.hardware <=> dg.current_session = None

\* the server can serve: its session can be updated and finalized, or the
\* controller is there for an init or a one-shot digest
Usable(s) ==
    \/ s.current_session # None /\ s.current_session[1].context # None
    \/ s.current_session = None /\ s.hardware

\* C30: an init, update or one-shot digest that replies HardwareFailure
\* leaves the server able to serve: the session can still be updated and
\* finalized, or a new init and one-shot digest succeed.
C30_HardwareFailureRecoverable ==
    [][\A alg \in Algorithms, hwOk \in BOOLEAN :
         /\ (DigestInit(alg, hwOk) /\ Usable(dg) /\ DigestRefused("HardwareFailure"))
               => Usable(dg')
         /\ \A session_id \in SessionIds, l \in UpdateLeases :
               (/\ DigestUpdate(session_id, l.len, l.data, TRUE, hwOk)
                /\ Usable(dg) /\ DigestRefused("HardwareFailure"))
                  => Usable(dg')
         /\ \A l \in OneshotLeases, failAt \in 0..3 :
               (/\ DigestOneshot(alg, l.len, l.data, TRUE, failAt)
                /\ Usable(dg) /\ DigestRefused("HardwareFailure"))
                  => Usable(dg')
      ]_vars

\* C27: an entry leaves the outstanding table only in a step that replies
\* to the caller stored in it; a recv satisfied at once for another caller
\* does not drop an earlier caller's entry for the same handle unanswered.
C27_RemovedOnlyWithReply ==
    [][\A i \in 1..Len(outstanding) :
         LET e == outstanding[i] IN
         (\A j \in 1..Len(outstanding') : outstanding'[j] # e)
            => Len(calls'[e.sender].reps) > Len(calls[e.sender].reps)
      ]_vars

\* C28: when an update completes the outstanding call for handle h with
\* TimedOut, h leaves the outstanding table and no message of h is taken
\* from the Router; a later recv(h, t) that finds no message and no entry
\* stores a fresh entry with deadline (time of that call) + t.
C28_TimedOutReleasesHandle ==
    [][/\ Update
            => \A i \in 1..Len(outstanding) :
                 LET e == outstanding[i] IN
                 (/\ calls[e.sender].reps = <<>>
                  /\ calls'[e.sender].reps # <<>>
                  /\ calls'[e.sender].reps[1].code = TimedOut)
                    => /\ ~contains_key(outstanding', e.handle)
                       /\ inbox'[e.handle] = inbox[e.handle]
       /\ \A t \in Tasks, h \in Handles, to \in Timeouts \ {0} :
            (/\ ClientRecv(t, h, to, 4)
             /\ NoMessageFor(h)
             /\ ~contains_key(outstanding, h))
               => \E j \in 1..Len(outstanding') :
                     outstanding'[j] = Entry(h, t, now + to)
      ]_vars

\* one caller's recv on a handle has ended with TimedOut and a later recv of
\* another caller on the same handle is parked with a deadline counted from
\* its own time
C28_Witness ==
    \E t1 \in Tasks, t2 \in Tasks :
        /\ calls[t1].st = "idle"
        /\ calls[t1].reps # <<>>
        /\ calls[t1].reps[1].code = TimedOut
        /\ calls[t2].st = "blocked"
        /\ calls[t2].handle = calls[t1].handle
        /\ \E j \in 1..Len(outstanding) :
              /\ outstanding[j].handle = calls[t2].handle
              /\ outstanding[j].sender = t2
              /\ calls[t2].timeout # 0
              /\ outstanding[j].deadline > calls[t2].timeout

\* C25: the loop takes both notifications it depends on: once the armed
\* timer has expired (TIMER_MASK posted) the bit is handed to the loop, which
\* runs Server::update, and once UART data has arrived (UART_IRQ_MASK posted)
\* the bit is handed to the loop, which runs the inbound path.
C25_NotificationsAccepted ==
    /\ (TIMER_MASK \subseteq irq.posted) ~> ~(TIMER_MASK \subseteq irq.posted)
    /\ (UART_IRQ_MASK \subseteq irq.posted) ~> ~(UART_IRQ_MASK \subseteq irq.posted)

\* a run of Server::update is still to come: the timer is armed or its
\* notification is posted
UpdateDue == timer # None \/ TIMER_MASK \subseteq irq.posted

\* C26: once the Router holds a message for handle h while a recv of task t
\* for h is outstanding, t's call is completed with a message in the end,
\* whatever its deadline and with no further call of a client.  (The clock
\* of the model stops at MaxTime: a call that still has a run of update to
\* come is counted as served.)
C26_DeliveryLive ==
    \A t \in Tasks, h \in Handles :
        (/\ \E i \in 1..Len(outstanding) :
               outstanding[i].handle = h /\ outstanding[i].sender = t
         /\ calls[t].st = "blocked"
         /\ ~NoMessageFor(h))
           ~> \/ calls[t].reps # <<>> /\ calls[t].reps[1].code = 0
              \/ UpdateDue

\* C31: a finalize of any algorithm with a session id other than the active
\* session's replies InvalidSession, makes no hardware call and puts the
\* session back: its id, algorithm and context, the controller and
\* next_session_id are as before, so the session can still be updated and
\* finalized with its own id.
C31_WrongSessionFinalize ==
    [][\A alg \in Algorithms, session_id \in SessionIds, hwOk \in BOOLEAN :
         (/\ DigestFinalize(alg, session_id, hwOk)
          /\ dg.current_session # None
          /\ ~IsCurrent(dg, session_id))
            => /\ DigestRefused("InvalidSession")
               /\ dg'.rep.hw = <<>>
               /\ dg'.current_session = dg.current_session
               /\ dg'.hardware = dg.hardware
               /\ dg'.next_session_id = dg.next_session_id
      ]_vars

\* a finalize refused while session 2, of SHA-512, is active with one chunk
\* in its context
C31_Witness ==
    /\ dg.rep = [op |-> "finalize", ok |-> FALSE, val |-> "InvalidSession", hw |-> <<>>]
    /\ dg.current_session =
          Some([session_id |-> 2, algorithm |-> "Sha512", context |-> Some(<<Abc>>)])
    /\ ~dg.hardware

\* C32: a one-shot digest never alters the active session (its id,
\* algorithm and context are as before once the call has returned), and a
\* one-shot digest issued with no session active leaves the controller in
\* the server, so that the next init or one-shot digest can have it.
C32_OneshotAndSessionApart ==
    [][\A alg \in Algorithms, l \in OneshotLeases, failAt \in 0..3 :
         DigestOneshot(alg, l.len, l.data, TRUE, failAt)
            => /\ dg'.current_session = dg.current_session
               /\ dg'.next_session_id = dg.next_session_id
               /\ dg.current_session = None => dg'.hardware
      ]_vars

\* a session id given out earlier whose session is over
Stale(s, session_id) ==
    /\ 1 <= session_id
    /\ session_id < s.next_session_id
    /\ ~IsCurrent(s, session_id)

----------------------------------------------------------------------------
(* I2C mock hardware *)

\* the (controller, addr) pairs registered with add_device
Registered(m) == Range(m.responding_devices)

\* what a write_read or write_read_block of the mock left behind
MockFailed(code, read_buffer) ==
    /\ ~i2c'.rep.ok
    /\ i2c'.rep.code = code
    /\ i2c'.rep.buf = read_buffer

\* C36: the mock's error injection is one-shot. inject_error(e) leaves e
\* pending; the next write_read or write_read_block fails with e whatever the
\* controller, address and devices are, and clears it; a call with nothing
\* pending succeeds exactly when the controller is enabled, the address is
\* not reserved and the device is registered; reset_bus clears a pending
\* injection and reports no error; no other operation touches it.
C36_InjectionOneShot ==
    [][/\ \A e \in InjectedErrors :
            MockInjectError(e) => i2c'.hw.force_error = Some(e)
       /\ \A c \in Controllers, a \in I2cAddrs, w \in WriteDatas, b \in ReadBuffers :
            (MockWriteRead(c, a, w, b) \/ MockWriteReadBlock(c, a, w, b))
               => /\ i2c'.hw.force_error = None
                  /\ IF i2c.hw.force_error # None
                     THEN MockFailed(i2c.hw.force_error[1], b)
                     ELSE i2c'.rep.ok <=> /\ c \in i2c.hw.enabled_controllers
                                          /\ a \notin ReservedAddresses
                                          /\ <<c, a>> \in Registered(i2c.hw)
       /\ \A c \in Controllers :
            MockResetBus(c) => i2c'.hw.force_error = None /\ i2c'.rep.ok
       /\ (MockAddDeviceStep \/ MockEnableControllerStep \/ MockDisableControllerStep)
               => i2c'.hw.force_error = i2c.hw.force_error
      ]_vars

\* a read of the registered device 0x50 on the enabled controller I2C0 has
\* failed with the injected BusLocked, and nothing is pending any more
C36_Witness ==
    /\ i2c.rep.op = "write_read"
    /\ i2c.rep.controller = I2C0 /\ i2c.rep.addr = 80
    /\ ~i2c.rep.ok /\ i2c.rep.code = "BusLocked"
    /\ I2C0 \in i2c.hw.enabled_controllers
    /\ <<I2C0, 80>> \in Registered(i2c.hw)
    /\ i2c.hw.force_error = None

\* C37: with no injected error pending, write_read checks the controller
\* first (BadController), then the address (ReservedAddress), then the
\* device (NoDevice); on every error the read buffer is as it was.
C37_ErrorPrecedence ==
    [][\A c \in Controllers, a \in I2cAddrs, w \in WriteDatas, b \in ReadBuffers :
          MockWriteRead(c, a, w, b)
             => /\ ~i2c'.rep.ok => i2c'.rep.buf = b
                /\ i2c.hw.force_error = None
                     => IF c \notin i2c.hw.enabled_controllers
                        THEN MockFailed("BadController", b)
                        ELSE IF a \in ReservedAddresses
                        THEN MockFailed("ReservedAddress", b)
                        ELSE IF <<c, a>> \notin Registered(i2c.hw)
                        THEN MockFailed("NoDevice", b)
                        ELSE i2c'.rep.ok
      ]_vars

\* a read of the registered device at the reserved address 3 on the enabled
\* I2C0 has been refused with ReservedAddress, its buffer untouched
C37_Witness ==
    /\ i2c.rep = I2cRep("write_read", I2C0, 3, I2cErr("ReservedAddress"), <<165>>)
    /\ I2C0 \in i2c.hw.enabled_controllers
    /\ <<I2C0, 3>> \in Registered(i2c.hw)
    /\ i2c.hw.force_error = None

\* C38: with I2C0 enabled and device 0x50 registered on it, write_read(I2C0,
\* 0x50, [0x10], 4-byte buffer) returns 4 and fills the buffer with
\* [0x70, 0x71, 0x72, 0x73].
C38_BasicRead ==
    [][(/\ MockWriteRead(I2C0, 80, <<16>>, <<0, 0, 0, 0>>)
        /\ i2c.hw.force_error = None
        /\ I2C0 \in i2c.hw.enabled_controllers
        /\ <<I2C0, 80>> \in Registered(i2c.hw))
          => /\ i2c'.rep.ok
             /\ i2c'.rep.val = 4
             /\ i2c'.rep.buf = <<112, 113, 114, 115>>
      ]_vars

----------------------------------------------------------------------------
(* SMBus block reads and the adapter's errors *)

\* what a block read owes its caller when the device sent `bytes`: the
\* count is the device's length byte, at most 32 and at most the buffer,
\* and the first count bytes of the buffer are the device's bytes after
\* the length byte
BlockDelivered(bytes, read_buffer) ==
    i2c'.rep.ok
       => /\ i2c'.rep.val <= Min(SMBUS_BLOCK_MAX, Len(read_buffer))
          /\ i2c'.rep.val = 0 \/ i2c'.rep.val = bytes[1]
          /\ \A i \in 1..i2c'.rep.val : i2c'.rep.buf[i] = Fill(bytes, i + 1)[i + 1]

\* C34: SMBus block reads return only the data bytes. For WriteReadBlock
\* the bytes delivered are the device's bytes after the leading length byte,
\* the count returned is the number of those bytes, at most min(32, read
\* buffer length), and empty write data is refused with BadArg; so for the
\* OpenProtI2cAdapter and for the AST1060 server alike.
C34_BlockReadDataOnly ==
    [][\A a \in BlockAddrs, w \in WriteDatas, b \in BlockBuffers, h \in HwOutcomes :
          (AdapterWriteReadBlock(a, w, b, h) \/ Ast1060WriteReadBlock(a, w, b, h))
             => IF w = <<>>
                THEN ~i2c'.rep.ok /\ i2c'.rep.code = "BadArg"
                ELSE h.ok => BlockDelivered(h.bytes, b)
      ]_vars

\* C35: OpenProtI2cAdapter::write_read reports a hardware error by its kind
\* (NoAcknowledge as NoDevice, Bus as BusError, ArbitrationLoss as
\* BusLocked, Other as BadDeviceState), and after inject_error(addr,
\* NoAcknowledge) a write_read to addr returns Err(NoDevice).
C35_ErrorsByKind ==
    [][\A a \in BlockAddrs, w \in WriteDatas, b \in BlockBuffers, h \in HwOutcomes :
          AdapterWriteRead(a, w, b, h)
             => /\ ~h.ok => ~i2c'.rep.ok /\ i2c'.rep.code = convert_error(h.kind)
                /\ i2c.rep = I2cRep("adapter.inject_error", I2C0, a,
                                    [ok |-> TRUE, val |-> 0, code |-> "NoAcknowledge"], <<>>)
                     => ~i2c'.rep.ok /\ i2c'.rep.code = "NoDevice"
      ]_vars

====
